---- MODULE Spec2Model ----
(***************************************************************************)
(* Verification model of the form-validator service:                       *)
(*   - the sliding-window rate limiter (src/middleware/rateLimit.ts),      *)
(*   - the bearer-token check and the route POST /api/validate,            *)
(*   - the validation orchestrator validateFormData and its helpers.       *)
(* Strings are TLA+ strings; TLC treats them as sequences of characters,   *)
(* so trimming, splitting and substring tests are computed character by    *)
(* character as the source does.                                           *)
(***************************************************************************)
EXTENDS Integers, Sequences, FiniteSets, TLC

VARIABLES
    clock,      \* Date.now(), in milliseconds
    zset,       \* per client: members of the sorted set rate_limit:{ip} (member = score = timestamp)
    expireAt,   \* per client: instant at which the key rate_limit:{ip} expires (-1: no key)
    inflight,   \* requests that have read Date.now() and await the pipeline
    resp,       \* the last response sent on POST /api/validate
    errorLog,   \* number of console.error lines written by the rate limiter
    served,     \* history: per executed transaction, its timestamp and whether the request was admitted
    nreq,       \* history: number of requests received
    detour,     \* history: the clock has made a step other than RegularGap
    vreq,       \* the request body last handed to validateFormData (stand-alone runs)
    vres,       \* the response validateFormData produced for vreq
    vbody,      \* req.body as validateFormData left it
    vagain,     \* the response to the same request object, validated once more
    call,       \* a call of one of the helper functions, with its arguments (stand-alone runs)
    ret,        \* what the function called returned
    isConnected,    \* RedisCache: the client exists and is connected
    redisKeys,      \* the keys email_domain:{domain} held by Redis, with their expiry
    fallbackCache,  \* RedisCache.fallbackCache: the in-process cache
    lookup,         \* the call of checkEmailDomain in progress, waiting for the HTTPS response
    lookups,        \* history: the calls of checkEmailDomain that have resolved
    fired,          \* the callbacks of the HTTPS request that have run for the call in progress
    writes,         \* the setex commands of these callbacks that Redis has not answered yet
    settled,        \* history: the messages resolve() was called with, in order, for the call in progress
    cacheOps        \* history: the calls of RedisCache.set and RedisCache.get made directly (stand-alone runs)

vars == <<clock, zset, expireAt, inflight, resp, errorLog, served, nreq, detour, vreq, vres,
          vbody, vagain, call, ret, isConnected, redisKeys, fallbackCache, lookup, lookups,
          fired, writes, settled, cacheOps>>

domainVars == <<isConnected, redisKeys, fallbackCache, lookup, lookups, fired, writes, settled, cacheOps>>
rateVars == <<zset, expireAt, inflight, resp, errorLog, served, nreq, detour>>
validationVars == <<vreq, vres, vbody, vagain>>
unitVars == <<call, ret>>

----------------------------------------------------------------------------
(* Values shared by all parts *)

\* JavaScript undefined (a header or key that is absent)
Undefined == "<undefined>"

\* Math.ceil(a / b) for integers a and b > 0
CeilDiv(a, b) == -((-a) \div b)

----------------------------------------------------------------------------
(* Rate limiter: src/middleware/rateLimit.ts *)

RATE_LIMIT_WINDOW_MS == 60 * 1000
MAX_REQUESTS_PER_WINDOW == 100

\* pipeline.zadd(key, now, now): the member is the timestamp itself, and a
\* sorted set holds each member once
ZAdd(set, member) == set \cup {member}

\* pipeline.zremrangebyscore(key, '-inf', max): both ends are inclusive
ZRemRangeByScore(set, max) == {m \in set : ~(m <= max)}

\* pipeline.zcard(key)
ZCard(set) == Cardinality(set)

\* The key has expired (pipeline.expire of an earlier transaction) when the
\* store's clock has reached expireAt; an expired key is an empty set.
LiveSet(ip) == IF expireAt[ip] >= 0 /\ clock >= expireAt[ip] THEN {} ELSE zset[ip]

\* The four pipelined commands of one request, applied as one transaction.
PipelineCommands(set, now) ==
    LET windowStart == now - RATE_LIMIT_WINDOW_MS
        added == ZAdd(set, now)
        kept == ZRemRangeByScore(added, windowStart)
    IN  [zset |-> kept,
         zcard |-> ZCard(kept),
         expire |-> clock + 1000 * CeilDiv(RATE_LIMIT_WINDOW_MS, 1000)]

\* Retry-After as computed on rejection
RetryAfterSeconds(now) ==
    LET windowStart == now - RATE_LIMIT_WINDOW_MS
    IN  CeilDiv(windowStart + RATE_LIMIT_WINDOW_MS - now, 1000)

\* Decision taken on the pipeline's results
OverLimit(currentRequestCount) == currentRequestCount > MAX_REQUESTS_PER_WINDOW

----------------------------------------------------------------------------
(* JavaScript string primitives, computed character by character *)

CharAt(s, i) == SubSeq(s, i, i)

IsSpace(c) == c \in {" ", "\t", "\n", "\r"}

RECURSIVE TrimStart(_)
TrimStart(s) == IF Len(s) > 0 /\ IsSpace(CharAt(s, 1)) THEN TrimStart(SubSeq(s, 2, Len(s))) ELSE s

RECURSIVE TrimEnd(_)
TrimEnd(s) == IF Len(s) > 0 /\ IsSpace(CharAt(s, Len(s))) THEN TrimEnd(SubSeq(s, 1, Len(s) - 1)) ELSE s

\* String.prototype.trim
Trim(s) == TrimEnd(TrimStart(s))

\* the first position from i on at which sub occurs in s; 0 when there is none
RECURSIVE IndexFrom(_, _, _)
IndexFrom(s, sub, i) ==
    IF i + Len(sub) - 1 > Len(s) THEN 0
    ELSE IF SubSeq(s, i, i + Len(sub) - 1) = sub THEN i
    ELSE IndexFrom(s, sub, i + 1)

\* String.prototype.indexOf, 1-based; 0 when sub does not occur
IndexOf(s, sub) == IF Len(sub) = 0 THEN 1 ELSE IndexFrom(s, sub, 1)

\* String.prototype.includes
Includes(s, sub) == IndexOf(s, sub) > 0

\* String.prototype.split with a one-character separator
RECURSIVE Split(_, _)
SplitAt(s, sep, i) ==
    IF i = 0 THEN <<s>>
    ELSE <<SubSeq(s, 1, i - 1)>> \o Split(SubSeq(s, i + 1, Len(s)), sep)

Split(s, sep) == SplitAt(s, sep, IndexOf(s, sep))

----------------------------------------------------------------------------
(* Bearer-token check: src/middleware/authenticate.ts *)

\* process.env.AUTH_TOKEN
AUTH_TOKEN == "your-secret"

\* req.headers['authorization'] when the header is not sent
NoHeader == Undefined

\* const token = authHeader && authHeader.split(' ')[1]
TokenOf(authHeader) ==
    IF authHeader = NoHeader THEN Undefined
    ELSE IF authHeader = "" THEN ""
    ELSE LET parts == Split(authHeader, " ")
         IN  IF Len(parts) >= 2 THEN parts[2] ELSE Undefined

\* authenticateToken: the status it answers with, or 0 when it calls next()
AuthenticateToken(authHeader) ==
    LET token == TokenOf(authHeader)
    IN  IF token = Undefined THEN 401
        ELSE IF token # AUTH_TOKEN THEN 403
        ELSE 0

----------------------------------------------------------------------------
(* Characters, case and regular-expression classes *)

LowerLetters == "abcdefghijklmnopqrstuvwxyz"
UpperLetters == "ABCDEFGHIJKLMNOPQRSTUVWXYZ"
DigitChars == "0123456789"

IsLower(c) == Includes(LowerLetters, c)
IsUpper(c) == Includes(UpperLetters, c)
IsDigit(c) == Includes(DigitChars, c)
IsLetter(c) == IsLower(c) \/ IsUpper(c)
IsAlnum(c) == IsLetter(c) \/ IsDigit(c)
\* \w
IsWordChar(c) == IsAlnum(c) \/ c = "_"

ToLowerChar(c) == IF IsUpper(c) THEN CharAt(LowerLetters, IndexOf(UpperLetters, c)) ELSE c
ToUpperChar(c) == IF IsLower(c) THEN CharAt(UpperLetters, IndexOf(LowerLetters, c)) ELSE c

RECURSIVE ToLowerCase(_)
ToLowerCase(s) == IF Len(s) = 0 THEN "" ELSE ToLowerChar(CharAt(s, 1)) \o ToLowerCase(SubSeq(s, 2, Len(s)))

\* every character of s satisfies the class P
AllChars(s, P(_)) == \A i \in 1..Len(s) : P(CharAt(s, i))
AnyChar(s, P(_)) == \E i \in 1..Len(s) : P(CharAt(s, i))

StartsWith(s, pre) == Len(pre) <= Len(s) /\ SubSeq(s, 1, Len(pre)) = pre
EndsWith(s, suf) == Len(suf) <= Len(s) /\ SubSeq(s, Len(s) - Len(suf) + 1, Len(s)) = suf

\* fieldName.replace(/[_-]/g, ' ').replace(/\b\w/g, l => l.toUpperCase())
RECURSIVE ReplaceSeparators(_)
ReplaceSeparators(s) ==
    IF Len(s) = 0 THEN ""
    ELSE (IF CharAt(s, 1) \in {"_", "-"} THEN " " ELSE CharAt(s, 1)) \o ReplaceSeparators(SubSeq(s, 2, Len(s)))

RECURSIVE CapitalizeWords(_, _)
CapitalizeWords(s, i) ==
    IF i > Len(s) THEN ""
    ELSE LET c == CharAt(s, i)
             atBoundary == IsWordChar(c) /\ (i = 1 \/ ~IsWordChar(CharAt(s, i - 1)))
         IN  (IF atBoundary THEN ToUpperChar(c) ELSE c) \o CapitalizeWords(s, i + 1)

FieldDisplayName(fieldName) == CapitalizeWords(ReplaceSeparators(fieldName), 1)

----------------------------------------------------------------------------
(* JSON values and objects.  A value is a record [t, s, n, o]: its type,    *)
(* its text (strings, booleans), its number, and the entries of an object.  *)
(* Entries are a sequence of [k, v] in insertion order (Object.keys order). *)

Str(s) == [t |-> "string", s |-> s, n |-> 0, o |-> <<>>]
Num(n) == [t |-> "number", s |-> "", n |-> n, o |-> <<>>]
Bool(b) == [t |-> "boolean", s |-> IF b THEN "true" ELSE "false", n |-> 0, o |-> <<>>]
Obj(entries) == [t |-> "object", s |-> "", n |-> 0, o |-> entries]
JNull == [t |-> "null", s |-> "", n |-> 0, o |-> <<>>]
JUndefined == [t |-> "undefined", s |-> "", n |-> 0, o |-> <<>>]

IsString(v) == v.t = "string"
IsDefined(v) == v.t # "undefined"

\* JavaScript truthiness of a value
Truthy(v) ==
    CASE v.t = "string" -> v.s # ""
      [] v.t = "number" -> v.n # 0
      [] v.t = "boolean" -> v.s = "true"
      [] v.t = "object" -> TRUE
      [] OTHER -> FALSE

\* value.toString(), for the values that have one
ToStr(v) ==
    CASE v.t = "string" -> v.s
      [] v.t = "number" -> ToString(v.n)
      [] v.t = "boolean" -> v.s
      [] OTHER -> "[object Object]"

HasKey(obj, k) == \E i \in 1..Len(obj) : obj[i].k = k
\* obj[k]
Get(obj, k) ==
    IF HasKey(obj, k) THEN obj[CHOOSE i \in 1..Len(obj) : obj[i].k = k].v ELSE JUndefined

Entry(k, v) == [k |-> k, v |-> v]

\* obj[k] = v: replaces in place, or appends a new key
Put(obj, k, v) ==
    IF HasKey(obj, k) THEN [i \in 1..Len(obj) |-> IF obj[i].k = k THEN Entry(k, v) ELSE obj[i]]
    ELSE Append(obj, Entry(k, v))

\* validateFormData, trimming loop: formData[key] = formData[key].trim() for string values
TrimFormData(formData) ==
    [i \in 1..Len(formData) |->
        IF IsString(formData[i].v) THEN Entry(formData[i].k, Str(Trim(formData[i].v.s))) ELSE formData[i]]

RECURSIVE Flatten(_)
Flatten(ss) == IF ss = <<>> THEN <<>> ELSE Head(ss) \o Flatten(Tail(ss))

Err(field, message) == [path |-> <<field>>, message |-> message]

----------------------------------------------------------------------------
(* Field-type detection: src/schemas (FIELD_TYPE_PATTERNS) and              *)
(* src/utils/fieldTypeDetector.ts                                           *)

\* Each pattern is /^(a|b|...)$/i: the set of its alternatives, in table order
FIELD_TYPE_PATTERNS == <<
    [type |-> "email",     alt |-> {"email", "e_mail", "user_email", "contact_email", "email_address"}],
    [type |-> "password",  alt |-> {"password", "pass", "pwd", "user_password", "confirm_password", "password_confirmation"}],
    [type |-> "firstName", alt |-> {"firstname", "first_name", "fname", "given_name"}],
    [type |-> "lastName",  alt |-> {"lastname", "last_name", "lname", "family_name", "surname"}],
    [type |-> "username",  alt |-> {"username", "user_name", "login", "handle"}],
    [type |-> "fullName",  alt |-> {"fullname", "full_name", "name", "display_name"}],
    [type |-> "phone",     alt |-> {"phone", "telephone", "mobile", "cell", "phone_number", "mobile_number", "contact_number"}],
    [type |-> "age",       alt |-> {"age", "years_old"}],
    [type |-> "url",       alt |-> {"url", "website", "homepage", "link"}],
    [type |-> "zipCode",   alt |-> {"zip", "zipcode", "zip_code", "postal_code", "postcode"}],
    [type |-> "country",   alt |-> {"country", "nation"}],
    [type |-> "state",     alt |-> {"state", "province", "region"}],
    [type |-> "city",      alt |-> {"city", "town", "locality"}],
    [type |-> "address",   alt |-> {"address", "street", "street_address", "address_line"}],
    [type |-> "company",   alt |-> {"company", "organization", "org", "business"}],
    [type |-> "title",     alt |-> {"title", "job_title", "position"}],
    [type |-> "date",      alt |-> {"date", "birthday", "birth_date", "created_at", "updated_at"}] >>

\* pattern.test(name) for a case-insensitive pattern
PatternTest(pattern, name) == ToLowerCase(name) \in pattern.alt

\* The substring rules with the full-name rule taking every name that
\* contains "name", a user's included
FuzzyFieldTypeAnyName(n) ==
    IF Includes(n, "email") THEN "email"
    ELSE IF Includes(n, "password") \/ Includes(n, "pass") THEN "password"
    ELSE IF Includes(n, "phone") \/ Includes(n, "mobile") THEN "phone"
    ELSE IF Includes(n, "name") THEN "fullName"
    ELSE IF Includes(n, "username") \/ Includes(n, "user_name") THEN "username"
    ELSE IF Includes(n, "age") THEN "age"
    ELSE "generic"

\* The substring rules that follow the pattern table
FuzzyFieldType(n) ==
    IF Includes(n, "email") THEN "email"
    ELSE IF Includes(n, "password") \/ Includes(n, "pass") THEN "password"
    ELSE IF Includes(n, "phone") \/ Includes(n, "mobile") THEN "phone"
    ELSE IF Includes(n, "username") \/ n = "user_name" \/ Includes(n, "user_name") THEN "username"
    ELSE IF Includes(n, "name") /\ Includes(n, "first") THEN "firstName"
    ELSE IF Includes(n, "name") /\ Includes(n, "last") THEN "lastName"
    ELSE IF Includes(n, "name") /\ ~Includes(n, "user") /\ ~Includes(n, "username") THEN "fullName"
    ELSE IF Includes(n, "age") THEN "age"
    ELSE IF Includes(n, "url") \/ Includes(n, "website") THEN "url"
    ELSE IF Includes(n, "zip") \/ Includes(n, "postal") THEN "zipCode"
    ELSE IF Includes(n, "country") THEN "country"
    ELSE IF Includes(n, "state") \/ Includes(n, "province") THEN "state"
    ELSE IF Includes(n, "city") \/ Includes(n, "town") THEN "city"
    ELSE IF Includes(n, "address") \/ Includes(n, "street") THEN "address"
    ELSE IF Includes(n, "company") \/ Includes(n, "organization") THEN "company"
    ELSE IF Includes(n, "title") \/ Includes(n, "position") THEN "title"
    ELSE IF Includes(n, "date") \/ Includes(n, "birth") THEN "date"
    ELSE "generic"

\* for (const [fieldType, pattern] of Object.entries(FIELD_TYPE_PATTERNS)): the
\* type of the first pattern from i on that matches, "" when none does
RECURSIVE FirstPatternType(_, _, _)
FirstPatternType(patterns, i, normalizedFieldName) ==
    IF i > Len(patterns) THEN ""
    ELSE IF PatternTest(patterns[i], normalizedFieldName) THEN patterns[i].type
    ELSE FirstPatternType(patterns, i + 1, normalizedFieldName)

\* the substring rules first, the pattern's type when none applies
FuzzyOrPattern(patternType, normalizedFieldName) ==
    IF FuzzyFieldType(normalizedFieldName) # "generic" THEN FuzzyFieldType(normalizedFieldName)
    ELSE IF patternType # "" THEN patternType
    ELSE "generic"

\* the pattern's type, else the substring rules
PatternOrFuzzy(patternType, normalizedFieldName) ==
    IF patternType # "" THEN patternType ELSE FuzzyFieldType(normalizedFieldName)

DetectNormalized(normalizedFieldName) ==
    PatternOrFuzzy(FirstPatternType(FIELD_TYPE_PATTERNS, 1, normalizedFieldName), normalizedFieldName)

detectFieldType(fieldName) == DetectNormalized(Trim(ToLowerCase(fieldName)))

\* analyzeFormFields: the detected type of every key, in key order
analyzeFormFields(formData) ==
    [i \in 1..Len(formData) |-> Entry(formData[i].k, Str(detectFieldType(formData[i].k)))]

----------------------------------------------------------------------------
(* Numbers in strings *)

DigitValue(c) == IndexOf(DigitChars, c) - 1

\* length of the longest prefix of s, from position i, made of digits
RECURSIVE DigitRun(_, _)
DigitRun(s, i) == IF i <= Len(s) /\ IsDigit(CharAt(s, i)) THEN 1 + DigitRun(s, i + 1) ELSE 0

RECURSIVE DigitsToNat(_)
DigitsToNat(ds) ==
    IF Len(ds) = 0 THEN 0
    ELSE 10 * DigitsToNat(SubSeq(ds, 1, Len(ds) - 1)) + DigitValue(CharAt(ds, Len(ds)))

\* parseInt(s) / parseFloat(s) on strings without a fraction or an exponent:
\* leading white space, an optional sign, then the longest run of digits;
\* NaN when there is no digit
ParseDigits(s, from, n) ==
    IF n = 0 THEN [nan |-> TRUE, n |-> 0]
    ELSE [nan |-> FALSE,
          n |-> IF CharAt(s, 1) = "-"
                THEN -DigitsToNat(SubSeq(s, from, from + n - 1))
                ELSE DigitsToNat(SubSeq(s, from, from + n - 1))]

ParseSigned(s, from) == ParseDigits(s, from, DigitRun(s, from))

ParseTrimmed(s) == ParseSigned(s, IF Len(s) > 0 /\ CharAt(s, 1) \in {"+", "-"} THEN 2 ELSE 1)

ParseNumber(str) == ParseTrimmed(TrimStart(str))

----------------------------------------------------------------------------
(* Password check: src/validators/passwordValidator.ts *)

\* A call either returns a message ("" stands for null) or throws a TypeError
Returned(msg) == [threw |-> FALSE, msg |-> msg]
Threw == [threw |-> TRUE, msg |-> ""]

\* The source's message has an en dash between 10 and 20
MsgPasswordLength == "Password must be 10-20 characters."
MsgPasswordUpper == "Password must contain at least one uppercase."
MsgPasswordLower == "Password must contain at least one lowercase."
MsgPasswordSpecial == "Password must contain at least one special character."
MsgPasswordNumber == "Password must contain at least one number."
MsgPasswordName == "Password must not contain your first or last name."

\* validatePassword(password, fullName); callers pass a third argument, which
\* the function does not declare and so never reads
\* lines 14-16, on the lower-cased password and the two first words of the name
PasswordContainsName(lowerPassword, firstName, lastName) ==
    \/ (Len(firstName) > 3 /\ Includes(lowerPassword, firstName))
    \/ (Len(lastName) > 3 /\ Includes(lowerPassword, lastName))

\* A check that looks for the name before anything else
PasswordMessageNameFirst(pw, containsName) ==
    IF containsName THEN Returned(MsgPasswordName)
    ELSE IF Len(pw) < 10 \/ Len(pw) > 20 THEN Returned(MsgPasswordLength)
    ELSE Returned("")

\* lines 7-10 and 18-27: the message for pw, given containsName
PasswordMessage(pw, containsName) ==
    LET minLen == 10
        maxLen == 20
        hasUpper == AnyChar(pw, IsUpper)
        hasLower == AnyChar(pw, IsLower)
        hasSpecial == \E i \in 1..Len(pw) : ~IsAlnum(CharAt(pw, i))
        hasNumber == AnyChar(pw, IsDigit)
    IN  IF Len(pw) < minLen \/ Len(pw) > maxLen THEN Returned(MsgPasswordLength)
        ELSE IF ~hasUpper THEN Returned(MsgPasswordUpper)
        ELSE IF ~hasLower THEN Returned(MsgPasswordLower)
        ELSE IF ~hasSpecial THEN Returned(MsgPasswordSpecial)
        ELSE IF ~hasNumber THEN Returned(MsgPasswordNumber)
        ELSE IF containsName THEN Returned(MsgPasswordName)
        ELSE Returned("")

\* const [firstName = "", lastName = ""] = fullName.toLowerCase().split(" ")
PasswordAgainstName(pw, parts) ==
    PasswordMessage(pw, PasswordContainsName(ToLowerCase(pw), parts[1],
                                             IF Len(parts) >= 2 THEN parts[2] ELSE ""))

validatePassword(password, fullName) ==
    IF ~IsString(fullName) \/ ~IsString(password) THEN Threw
    ELSE PasswordAgainstName(password.s, Split(ToLowerCase(fullName.s), " "))

----------------------------------------------------------------------------
(* Suspicious local part: src/validators/emailUsernameValidator.ts *)

IsVowel(c) == c \in {"a", "e", "i", "o", "u"}
IsSeparatorChar(c) == c \in {".", "-", "_"}

\* some run of n consecutive characters of s all satisfy P
HasRun(s, n, P(_)) ==
    \E i \in 1..(Len(s) - n + 1) : \A j \in i..(i + n - 1) : P(CharAt(s, j))

CountChar(s, c) == Cardinality({i \in 1..Len(s) : CharAt(s, i) = c})

\* the classes of the maximal runs of s: L letters, D digits, X anything else
RECURSIVE RunClasses(_, _)
RunClasses(s, i) ==
    IF i > Len(s) THEN ""
    ELSE LET cls(c) == IF IsLetter(c) THEN "L" ELSE IF IsDigit(c) THEN "D" ELSE "X"
             here == cls(CharAt(s, i))
         IN  (IF i > 1 /\ cls(CharAt(s, i - 1)) = here THEN "" ELSE here) \o RunClasses(s, i + 1)

isSuspiciousEmailUsername(username) ==
    LET dotCount == CountChar(username, ".")
        hasTooManyDots == dotCount >= 4
        \* /\.\d\.\d/
        hasClusteredDots ==
            \E i \in 1..(Len(username) - 3) :
                /\ CharAt(username, i) = "." /\ IsDigit(CharAt(username, i + 1))
                /\ CharAt(username, i + 2) = "." /\ IsDigit(CharAt(username, i + 3))
        \* /[\.\-\_]{3,}/
        hasTooManySpecials == HasRun(username, 3, IsSeparatorChar)
        \* /^[a-z0-9]{12,}$/ and not /[aeiou]{2,}/
        looksRandom ==
            /\ Len(username) >= 12
            /\ \A i \in 1..Len(username) : IsLower(CharAt(username, i)) \/ IsDigit(CharAt(username, i))
            /\ ~HasRun(username, 2, IsVowel)
        \* /^[a-z]+\d+[a-z]+\d+$/i and length > 12
        hasSuspiciousStructure == RunClasses(username, 1) = "LDLD" /\ Len(username) > 12
        hasBadCharacter == Includes(ToLowerCase(username), "+")
    IN  \/ hasTooManyDots \/ hasClusteredDots \/ hasTooManySpecials
        \/ hasSuspiciousStructure \/ looksRandom \/ hasBadCharacter

MsgSuspicious == "Email username looks suspicious."

----------------------------------------------------------------------------
(* Regular expressions used by the schemas and by the rule pool.  Each is   *)
(* named by an identifier and matched by hand.                              *)

IsNameChar(c) == IsLetter(c) \/ IsSpace(c) \/ c \in {"'", ".", "-"}
IsZipChar(c) == IsAlnum(c) \/ IsSpace(c) \/ c = "-"

\* new RegExp(source) throws a SyntaxError
RegexCompiles(re) == re # "["

\* regex.test(s)
RegexTest(re, s) ==
    CASE re = "NAME" -> Len(s) >= 1 /\ AllChars(s, IsNameChar)
      [] re = "PLACE" -> Len(s) >= 1 /\ AllChars(s, IsNameChar)
      [] re = "PHONE" ->
            LET body == IF StartsWith(s, "+") THEN SubSeq(s, 2, Len(s)) ELSE s
            IN  /\ Len(body) >= 1 /\ Len(body) <= 16
                /\ AllChars(body, IsDigit) /\ CharAt(body, 1) # "0"
      [] re = "DIGITS" -> Len(s) >= 1 /\ AllChars(s, IsDigit)
      [] re = "USERNAME" -> Len(s) >= 1 /\ AllChars(s, IsWordChar)
      [] re = "ZIP" -> Len(s) >= 1 /\ AllChars(s, IsZipChar)
      [] re = "DATE" ->
            /\ Len(s) = 10
            /\ \A i \in 1..10 : IF i \in {5, 8} THEN CharAt(s, i) = "-" ELSE IsDigit(CharAt(s, i))
      [] re = "^[0-9]+$" -> Len(s) >= 1 /\ AllChars(s, IsDigit)
      [] re = "^[A-Z]" -> Len(s) >= 1 /\ IsUpper(CharAt(s, 1))
      [] OTHER -> FALSE

----------------------------------------------------------------------------
(* zod: string checks.  A schema is the list of its checks after trim();    *)
(* zod runs every check and reports every failing one, in order.            *)

IsEmailLocalChar(c) == IsAlnum(c) \/ c \in {"_", "'", "+", "-", "."}
IsEmailLocalLast(c) == IsAlnum(c) \/ c \in {"_", "+", "-"}
IsLabelChar(c) == IsAlnum(c) \/ c = "-"

\* zod's e-mail expression:
\* /^(?!\.)(?!.*\.\.)([A-Z0-9_'+\-\.]*)[A-Z0-9_+-]@([A-Z0-9][A-Z0-9\-]*\.)+[A-Z]{2,}$/i
ZodEmail(s) ==
    LET parts == Split(s, "@")
        local == parts[1]
        labels == Split(parts[2], ".")
    IN  /\ Len(parts) = 2
        /\ Len(local) >= 1
        /\ ~StartsWith(s, ".")
        /\ ~Includes(s, "..")
        /\ AllChars(local, IsEmailLocalChar)
        /\ IsEmailLocalLast(CharAt(local, Len(local)))
        /\ Len(labels) >= 2
        /\ \A i \in 1..(Len(labels) - 1) :
              /\ Len(labels[i]) >= 1
              /\ IsAlnum(CharAt(labels[i], 1))
              /\ AllChars(labels[i], IsLabelChar)
        /\ Len(labels[Len(labels)]) >= 2
        /\ AllChars(labels[Len(labels)], IsLetter)

IsSchemeChar(c) == IsAlnum(c) \/ c \in {"+", "-", "."}
IsSlash(c) == c = "/"

RECURSIVE DropSlashes(_)
DropSlashes(s) == IF Len(s) > 0 /\ IsSlash(CharAt(s, 1)) THEN DropSlashes(SubSeq(s, 2, Len(s))) ELSE s

\* zod's url(): new URL(s) does not throw.  A scheme is needed; the special
\* schemes also need a host.
ZodUrl(s) ==
    LET colon == IndexOf(s, ":")
        scheme == SubSeq(s, 1, colon - 1)
        rest == DropSlashes(SubSeq(s, colon + 1, Len(s)))
        host == Split(rest, "/")[1]
    IN  /\ colon > 1
        /\ IsLetter(CharAt(scheme, 1))
        /\ AllChars(scheme, IsSchemeChar)
        /\ (ToLowerCase(scheme) \in {"http", "https", "ftp", "ws", "wss"}
               => (Len(host) >= 1 /\ ~AnyChar(host, IsSpace)))

Check(kind, n, re, msg) == [kind |-> kind, n |-> n, re |-> re, msg |-> msg]

\* .refine(val => { const age = parseInt(val); return age >= 13 && age <= 120; })
AgeInRange(age) == ~age.nan /\ age.n >= 13 /\ age.n <= 120

\* whether the (trimmed) string passes one check
CheckPasses(check, data) ==
    CASE check.kind = "min" -> Len(data) >= check.n
      [] check.kind = "max" -> Len(data) <= check.n
      [] check.kind = "regex" -> RegexTest(check.re, data)
      [] check.kind = "email" -> ZodEmail(data)
      [] check.kind = "url" -> ZodUrl(data)
      [] check.kind = "ageRange" -> AgeInRange(ParseNumber(data))

MsgExpectedString(v) == IF v.t = "undefined" THEN "Required" ELSE "Expected string, received " \o v.t

\* schema.safeParse(value) for a string schema made optional or not: the
\* messages of the issues, in order (<<>> when the value is accepted)
Messages(checks) == [i \in 1..Len(checks) |-> checks[i].msg]

FailingChecks(checks, data) == SelectSeq(checks, LAMBDA c : ~CheckPasses(c, data))

ParseField(schema, optional, value) ==
    IF value.t = "undefined" /\ optional THEN <<>>
    ELSE IF ~IsString(value) THEN <<MsgExpectedString(value)>>
    ELSE Messages(FailingChecks(schema.checks, Trim(value.s)))

\* the value a string schema outputs
ParsedValue(value) == IF IsString(value) THEN Str(Trim(value.s)) ELSE value

----------------------------------------------------------------------------
(* Type schemas: src/utils/dynamicSchemaBuilder.ts *)

StringSchema(checks) == [checks |-> checks, isZodString |-> TRUE]

\* the schema of a type for a field displayed as d
TypeSchema(fieldType, d) ==
    LET letters == d \o " can only contain letters, spaces, hyphens, apostrophes, and periods"
        atLeast(n) == Check("min", n, "", d \o " must be at least " \o ToString(n) \o " characters")
        atMost(n) == Check("max", n, "", d \o " must not exceed " \o ToString(n) \o " characters")
    IN  CASE fieldType = "email" ->
               StringSchema(<<Check("email", 0, "", "Please enter a valid email address for " \o d)>>)
          [] fieldType = "password" ->
               StringSchema(<<Check("min", 1, "", d \o " is required")>>)
          [] fieldType \in {"firstName", "lastName"} ->
               StringSchema(<<atLeast(2), atMost(50), Check("regex", 0, "NAME", letters)>>)
          [] fieldType = "fullName" ->
               StringSchema(<<atLeast(2), atMost(100), Check("regex", 0, "NAME", letters)>>)
          [] fieldType = "phone" ->
               StringSchema(<<Check("min", 10, "", d \o " must be at least 10 digits"),
                              Check("max", 15, "", d \o " must not exceed 15 digits"),
                              Check("regex", 0, "PHONE", d \o " must be a valid phone number")>>)
          [] fieldType = "age" ->
               [checks |-> <<Check("regex", 0, "DIGITS", d \o " must be a valid number"),
                             Check("ageRange", 0, "", d \o " must be between 13 and 120")>>,
                isZodString |-> FALSE]
          [] fieldType = "url" ->
               StringSchema(<<Check("url", 0, "", d \o " must be a valid URL")>>)
          [] fieldType = "username" ->
               StringSchema(<<atLeast(3), atMost(30),
                              Check("regex", 0, "USERNAME", d \o " can only contain letters, numbers, and underscores")>>)
          [] fieldType = "zipCode" ->
               StringSchema(<<atLeast(3), atMost(10),
                              Check("regex", 0, "ZIP", d \o " must be a valid postal code")>>)
          [] fieldType \in {"country", "state", "city"} ->
               StringSchema(<<atLeast(2), atMost(50), Check("regex", 0, "PLACE", letters)>>)
          [] fieldType = "address" ->
               StringSchema(<<atLeast(5), atMost(200)>>)
          [] fieldType \in {"company", "title"} ->
               StringSchema(<<atLeast(2), atMost(100)>>)
          [] fieldType = "date" ->
               StringSchema(<<Check("regex", 0, "DATE", d \o " must be in YYYY-MM-DD format")>>)
          [] OTHER ->
               StringSchema(<<atMost(500)>>)

createFieldSchema(fieldType, fieldName) == TypeSchema(fieldType, FieldDisplayName(fieldName))

\* customRule.message || fallback
MessageOr(rule, fallback) ==
    IF Truthy(Get(rule, "message")) THEN ToStr(Get(rule, "message")) ELSE fallback

\* the checks a custom rule adds to a string schema, for a field displayed as d
CustomChecks(customRule, d) ==
    LET minLength == Get(customRule, "minLength")
        maxLength == Get(customRule, "maxLength")
        pattern == Get(customRule, "pattern")
        minChecks ==
            IF IsDefined(minLength)
            THEN <<Check("min", minLength.n, "",
                         MessageOr(customRule, d \o " must be at least " \o ToString(minLength.n) \o " characters"))>>
            ELSE <<>>
        maxChecks ==
            IF IsDefined(maxLength)
            THEN <<Check("max", maxLength.n, "",
                         MessageOr(customRule, d \o " must not exceed " \o ToString(maxLength.n) \o " characters"))>>
            ELSE <<>>
        patternChecks ==
            IF Truthy(pattern) /\ RegexCompiles(pattern.s)
            THEN <<Check("regex", 0, pattern.s, MessageOr(customRule, d \o " format is invalid"))>>
            ELSE <<>>
    IN  minChecks \o maxChecks \o patternChecks

applyCustomRules(schema, customRule, fieldName) ==
    IF ~schema.isZodString THEN schema
    ELSE StringSchema(schema.checks \o CustomChecks(customRule, FieldDisplayName(fieldName)))

\* customRules?.[fieldName] || requirement?.customRule
FieldCustomRule(requirement, topRule) ==
    IF Truthy(topRule) THEN topRule ELSE Get(requirement.o, "customRule")

\* requirement?.type || detectFieldType(fieldName)
FieldTypeOf(fieldName, declared) ==
    IF Truthy(declared) THEN ToStr(declared) ELSE detectFieldType(fieldName)

\* the body of buildDynamicSchema's loop for one field, given its requirement
\* and its custom rule
FieldSchemaWith(fieldName, requirement, customRule) ==
    [schema |-> IF Truthy(customRule)
                THEN applyCustomRules(createFieldSchema(FieldTypeOf(fieldName, Get(requirement.o, "type")), fieldName),
                                      customRule.o, fieldName)
                ELSE createFieldSchema(FieldTypeOf(fieldName, Get(requirement.o, "type")), fieldName),
     optional |-> ~(Get(requirement.o, "required") = Bool(TRUE) \/ Get(customRule.o, "required") = Bool(TRUE))]

FieldSchemaFor(fieldName, requirement, topRule) ==
    FieldSchemaWith(fieldName, requirement, FieldCustomRule(requirement, topRule))

\* One field of buildDynamicSchema: its schema and whether it is optional
DynamicFieldSchema(fieldName, fieldRequirements, customRules) ==
    FieldSchemaFor(fieldName, Get(fieldRequirements.o, fieldName), Get(customRules.o, fieldName))

\* the issues of one field: each message under the path [fieldName]
FieldErrors(fieldName, msgs) == [j \in 1..Len(msgs) |-> Err(fieldName, msgs[j])]

ParseWith(f, value) == ParseField(f.schema, f.optional, value)

\* validateDynamicForm: buildDynamicSchema(...).safeParse(formData); the
\* issues in key order, and the parsed data
DynamicIssues(formData, fieldRequirements, customRules) ==
    Flatten([i \in 1..Len(formData) |->
                FieldErrors(formData[i].k,
                            ParseWith(DynamicFieldSchema(formData[i].k, fieldRequirements, customRules),
                                      formData[i].v))])

DynamicResult(formData, issues) ==
    [success |-> issues = <<>>,
     errors |-> issues,
     data |-> [i \in 1..Len(formData) |-> Entry(formData[i].k, ParsedValue(formData[i].v))]]

validateDynamicForm(formData, fieldRequirements, customRules) ==
    DynamicResult(formData, DynamicIssues(formData, fieldRequirements, customRules))

----------------------------------------------------------------------------
(* Custom rules: src/utils/customValidationEngine.ts *)

\* A test for emptiness that takes only a missing value for empty
IsMissingValue(v) == v.t \in {"undefined", "null"}

\* !value || value.toString().trim() === ''
IsEmptyValue(v) == ~Truthy(v) \/ Trim(ToStr(v)) = ""

\* A spread in which the keys of the base win over those of the overlay
RECURSIVE SpreadKeepingBase(_, _)
SpreadKeepingBase(base, overlay) ==
    IF overlay = <<>> THEN base
    ELSE SpreadKeepingBase(IF HasKey(base, Head(overlay).k) THEN base
                           ELSE Put(base, Head(overlay).k, Head(overlay).v), Tail(overlay))

\* { ...base, ...overlay }
RECURSIVE Spread(_, _)
Spread(base, overlay) ==
    IF overlay = <<>> THEN base
    ELSE Spread(Put(base, Head(overlay).k, Head(overlay).v), Tail(overlay))

\* vm.runInNewContext(script, {value, allData, fieldName, _}) for the scripts
\* of the rule pool; a script that throws counts as false
RunCustomValidator(script, fieldValue) ==
    CASE script = "true" -> TRUE
      [] script = "value.length >= 3" -> IsString(fieldValue) /\ Len(fieldValue.s) >= 3
      [] OTHER -> FALSE

\* fieldValue.split(',').map(item => item.trim()).filter(item => item), or [fieldValue]
ItemCount(fieldValue) ==
    IF IsString(fieldValue)
    THEN Len(SelectSeq(Split(fieldValue.s, ","), LAMBDA item : Trim(item) # ""))
    ELSE 1

\* validateAdvancedRule after its first lines: d is the display name,
\* stringValue is fieldValue?.toString() || '', numericValue its parseFloat
AdvancedRuleOn(d, fieldValue, stringValue, numericValue, allFormData, rule) ==
    LET R(k) == Get(rule, k)
        msg(fallback) == MessageOr(rule, fallback)
    IN  IF ~Truthy(R("required")) /\ IsEmptyValue(fieldValue) THEN ""
        ELSE IF Truthy(R("dependsOn")) /\ IsDefined(R("dependsOnValue"))
                /\ Get(allFormData, ToStr(R("dependsOn"))) # R("dependsOnValue") THEN ""
        ELSE IF IsDefined(R("minLength")) /\ Len(stringValue) < R("minLength").n
            THEN msg(d \o " must be at least " \o ToString(R("minLength").n) \o " characters")
        ELSE IF IsDefined(R("maxLength")) /\ Len(stringValue) > R("maxLength").n
            THEN msg(d \o " must not exceed " \o ToString(R("maxLength").n) \o " characters")
        ELSE IF Truthy(R("pattern")) /\ RegexCompiles(R("pattern").s) /\ ~RegexTest(R("pattern").s, stringValue)
            THEN msg(d \o " format is invalid")
        ELSE IF Truthy(R("contains")) /\ ~Includes(ToLowerCase(stringValue), ToLowerCase(R("contains").s))
            THEN msg(d \o " must contain \"" \o R("contains").s \o "\"")
        ELSE IF Truthy(R("startsWith")) /\ ~StartsWith(ToLowerCase(stringValue), ToLowerCase(R("startsWith").s))
            THEN msg(d \o " must start with \"" \o R("startsWith").s \o "\"")
        ELSE IF Truthy(R("endsWith")) /\ ~EndsWith(ToLowerCase(stringValue), ToLowerCase(R("endsWith").s))
            THEN msg(d \o " must end with \"" \o R("endsWith").s \o "\"")
        ELSE IF (IsDefined(R("min")) \/ IsDefined(R("max"))) /\ numericValue.nan
            THEN msg(d \o " must be a valid number")
        ELSE IF IsDefined(R("min")) /\ numericValue.n < R("min").n
            THEN msg(d \o " must be at least " \o ToString(R("min").n))
        ELSE IF IsDefined(R("max")) /\ numericValue.n > R("max").n
            THEN msg(d \o " must not exceed " \o ToString(R("max").n))
        ELSE IF IsDefined(R("minItems")) /\ ItemCount(fieldValue) < R("minItems").n
            THEN msg(d \o " must have at least " \o ToString(R("minItems").n) \o " items")
        ELSE IF IsDefined(R("maxItems")) /\ ItemCount(fieldValue) > R("maxItems").n
            THEN msg(d \o " must not have more than " \o ToString(R("maxItems").n) \o " items")
        ELSE IF Truthy(R("customValidator")) /\ ~RunCustomValidator(R("customValidator").s, fieldValue)
            THEN msg(d \o " validation failed")
        ELSE ""

AdvancedRuleOnString(d, fieldValue, stringValue, allFormData, rule) ==
    AdvancedRuleOn(d, fieldValue, stringValue, ParseNumber(stringValue), allFormData, rule)

\* validateAdvancedRule: the message, or "" for null
validateAdvancedRule(fieldName, fieldValue, allFormData, rule) ==
    AdvancedRuleOnString(FieldDisplayName(fieldName), fieldValue,
                         IF fieldValue.t \in {"null", "undefined"} THEN "" ELSE ToStr(fieldValue),
                         allFormData, rule)

\* if (error) errors.push({ path: [fieldName], message: error })
RuleError(fieldName, message) == IF message # "" THEN <<Err(fieldName, message)>> ELSE <<>>

\* validateWithCustomRules(formData, customRules): customRules is the merged map
validateWithCustomRules(formData, customRules) ==
    Flatten([i \in 1..Len(customRules) |->
                RuleError(customRules[i].k,
                          validateAdvancedRule(customRules[i].k, Get(formData, customRules[i].k),
                                               formData, customRules[i].v.o))])

\* merged[fieldName] = { required: requirement.required, ...requirement.customRule }
RequirementRule(requirement) ==
    Obj(Spread(<<Entry("required", Get(requirement.o, "required"))>>, Get(requirement.o, "customRule").o))

RECURSIVE MergeRequirements(_, _)
MergeRequirements(merged, entries) ==
    IF entries = <<>> THEN merged
    ELSE MergeRequirements(Put(merged, Head(entries).k, RequirementRule(Head(entries).v)), Tail(entries))

\* merged[fieldName] = { ...merged[fieldName], ...rule }
RECURSIVE MergeCustomRules(_, _)
MergeCustomRules(merged, entries) ==
    IF entries = <<>> THEN merged
    ELSE MergeCustomRules(
            Put(merged, Head(entries).k, Obj(Spread(Get(merged, Head(entries).k).o, Head(entries).v.o))),
            Tail(entries))

\* mergeValidationRules(fieldRequirements, customRules): the entries of the merged map
mergeValidationRules(fieldRequirements, customRules) ==
    MergeCustomRules(MergeRequirements(<<>>, fieldRequirements.o), customRules.o)

\* validateRequiredFields(formData, fieldRequirements)
validateRequiredFields(formData, fieldRequirements) ==
    LET entries == fieldRequirements.o
        errorOf(i) ==
            IF Truthy(Get(entries[i].v.o, "required")) /\ IsEmptyValue(Get(formData, entries[i].k))
            THEN <<Err(entries[i].k, FieldDisplayName(entries[i].k) \o " is required")>>
            ELSE <<>>
    IN  Flatten([i \in 1..Len(entries) |-> errorOf(i)])

----------------------------------------------------------------------------
(* Fixed schemas: src/schemas/index.ts *)

signupSchema == <<
    [k |-> "firstname", schema |-> StringSchema(<<
        Check("min", 2, "", "First name must be at least 2 characters"),
        Check("max", 50, "", "First name must not exceed 50 characters"),
        Check("regex", 0, "NAME", "First name can only contain letters, spaces, hyphens, apostrophes, and periods")>>)],
    [k |-> "lastname", schema |-> StringSchema(<<
        Check("min", 2, "", "Last name must be at least 2 characters"),
        Check("max", 50, "", "Last name must not exceed 50 characters"),
        Check("regex", 0, "NAME", "Last name can only contain letters, spaces, hyphens, apostrophes, and periods")>>)],
    [k |-> "email", schema |-> StringSchema(<<Check("email", 0, "", "Please enter a valid email address")>>)],
    [k |-> "password", schema |-> StringSchema(<<Check("min", 1, "", "Password is required")>>)] >>

\* Property names every JavaScript object inherits from Object.prototype
InheritedProperties ==
    {"constructor", "toString", "valueOf", "hasOwnProperty", "isPrototypeOf",
     "propertyIsEnumerable", "toLocaleString", "__proto__"}

\* schemas[name], where schemas = { signup: signupSchema } is an object literal:
\* "schema" for signup, "inherited" for a truthy inherited property that is
\* not a schema, "none" for undefined
SchemaLookup(name) ==
    IF name = Str("signup") THEN "schema"
    ELSE IF IsString(name) /\ name.s \in InheritedProperties THEN "inherited"
    ELSE "none"

\* the issues of the fields of a fixed schema from i on, in the order of its keys
RECURSIVE ObjectIssues(_, _, _)
ObjectIssues(shape, i, formData) ==
    IF i > Len(shape) THEN <<>>
    ELSE FieldErrors(shape[i].k, ParseField(shape[i].schema, FALSE, Get(formData, shape[i].k)))
         \o ObjectIssues(shape, i + 1, formData)

\* the data a fixed schema outputs: its own keys, unknown keys stripped
ObjectParsed(shape, formData) ==
    Obj([i \in 1..Len(shape) |-> Entry(shape[i].k, ParsedValue(Get(formData, shape[i].k)))])

\* signupSchema.parse(formData): the issues it throws with (<<>>: it returns)
SignupIssues(formData) == ObjectIssues(signupSchema, 1, formData)

SignupParsed(formData) == ObjectParsed(signupSchema, formData)

----------------------------------------------------------------------------
(* The orchestrator: src/controllers/validateController.ts *)

\* A response of validateFormData.  error is the text of a 400; errors the
\* list of a 422; collected is history: the errors the handler had
\* accumulated in its own list when it answered.
Response(status, error, errors, data, fieldAnalysis, collected) ==
    [status |-> status, error |-> error, errors |-> errors, data |-> data,
     fieldAnalysis |-> fieldAnalysis, collected |-> collected]

BadRequest(error) == Response(400, error, <<>>, JUndefined, JUndefined, <<>>)

\* the catch block: res.status(422).json({ success: false, errors: formatZodErrors(err) });
\* formatZodErrors gives [] for anything that is not a ZodError
Caught(zodIssues, collected) == Response(422, "", zodIssues, JUndefined, JUndefined, collected)

\* if (errors.length > 0) 422 with the errors, else the success response
Aggregate(errors, validated, isDynamicMode, formData) ==
    IF Len(errors) > 0 THEN Response(422, "", errors, JUndefined, JUndefined, errors)
    ELSE Response(200, "", <<>>, validated,
                  IF isDynamicMode THEN Obj(analyzeFormFields(formData)) ELSE JUndefined, errors)

\* const [username, domain] = email.split("@")
PartsOf(parts) == [username |-> parts[1], domain |-> IF Len(parts) >= 2 THEN parts[2] ELSE ""]

EmailParts(email) == PartsOf(Split(email, "@"))

\* The domain check of one address: verdict is what checkEmailDomain resolves
\* with for this request ("" for null)
DomainErrors(field, email, verdict) ==
    IF EmailParts(email).domain # "" /\ verdict # "" THEN <<Err(field, verdict)>> ELSE <<>>

\* if (passErr) errors.push({ path: [field], message: passErr })
PasswordErrors(field, result) == IF result.msg # "" THEN <<Err(field, result.msg)>> ELSE <<>>

\* The signup branch after a successful parse, given what validatePassword did
SignupChecksAfter(passErr, email, verdict) ==
    [threw |-> passErr.threw,
     errors |-> PasswordErrors("password", passErr)
                \o (IF isSuspiciousEmailUsername(EmailParts(email).username)
                    THEN <<Err("email", MsgSuspicious)>> ELSE <<>>)
                \o DomainErrors("email", email, verdict)]

SignupChecks(formData, verdict) ==
    SignupChecksAfter(validatePassword(Get(formData, "password"), Get(formData, "firstname")),
                      Get(formData, "email").s, verdict)

\* Object.keys(formData).find(field => fieldTypes[field] === type || field.toLowerCase().includes(word)),
\* searching from the i-th key on
RECURSIVE FindFrom(_, _, _, _)
FindFrom(formData, type, word, i) ==
    IF i > Len(formData) THEN Undefined
    ELSE IF detectFieldType(formData[i].k) = type \/ Includes(ToLowerCase(formData[i].k), word)
         THEN formData[i].k
    ELSE FindFrom(formData, type, word, i + 1)

FindNameField(formData, type, word) == FindFrom(formData, type, word, 1)

\* Object.keys(fieldTypes).filter(field => fieldTypes[field] === type && formData[field])
FieldsOfType(formData, type) ==
    SelectSeq(formData, LAMBDA e : detectFieldType(e.k) = type /\ Truthy(e.v))

\* The password loop from the i-th password field on: whether a call threw,
\* and the errors pushed before that
RECURSIVE PasswordLoop(_, _, _, _)
PasswordLoopAfter(result, passwordFields, i, formData, firstNameField) ==
    IF result.threw THEN [threw |-> TRUE, errors |-> <<>>]
    ELSE [threw |-> PasswordLoop(passwordFields, i + 1, formData, firstNameField).threw,
          errors |-> PasswordErrors(passwordFields[i].k, result)
                     \o PasswordLoop(passwordFields, i + 1, formData, firstNameField).errors]

PasswordLoop(passwordFields, i, formData, firstNameField) ==
    IF i > Len(passwordFields) THEN [threw |-> FALSE, errors |-> <<>>]
    ELSE PasswordLoopAfter(validatePassword(passwordFields[i].v, Get(formData, firstNameField)),
                           passwordFields, i, formData, firstNameField)

PasswordChecksWith(formData, firstNameField, lastNameField) ==
    IF firstNameField = Undefined \/ lastNameField = Undefined
    THEN [threw |-> FALSE, errors |-> <<>>]
    ELSE PasswordLoop(FieldsOfType(formData, "password"), 1, formData, firstNameField)

\* The password loop of the dynamic branch
DynamicPasswordChecks(formData) ==
    PasswordChecksWith(formData, FindNameField(formData, "firstName", "first"),
                       FindNameField(formData, "lastName", "last"))

\* The body of the e-mail loop for one field
EmailFieldErrors(field, email, verdict) ==
    (IF EmailParts(email).username # "" /\ isSuspiciousEmailUsername(EmailParts(email).username)
     THEN <<Err(field, MsgSuspicious)>> ELSE <<>>)
    \o DomainErrors(field, email, verdict)

EmailLoop(emailFields, verdict) ==
    Flatten([i \in 1..Len(emailFields) |->
                IF IsString(emailFields[i].v)
                THEN EmailFieldErrors(emailFields[i].k, emailFields[i].v.s, verdict)
                ELSE <<>>])

\* The e-mail loop of the dynamic branch
DynamicEmailChecks(formData, verdict) == EmailLoop(FieldsOfType(formData, "email"), verdict)

\* A schema branch that goes on to the signup checks after a failed parse
SchemaModeAfterCheckingAnyway(issues, checks, formData) ==
    IF checks.threw THEN Caught(issues, <<>>)
    ELSE IF issues \o checks.errors # <<>> THEN Caught(issues \o checks.errors, <<>>)
    ELSE Aggregate(checks.errors, SignupParsed(formData), FALSE, formData)

\* The schema branch after schema.parse, given its issues and the signup checks
SchemaModeAfter(issues, checks, formData) ==
    IF issues # <<>> THEN Caught(issues, <<>>)
    ELSE IF checks.threw THEN Caught(<<>>, <<>>)
    ELSE Aggregate(checks.errors, SignupParsed(formData), FALSE, formData)

\* The schema branch (validationType 'schema', or schemaType alone)
SchemaMode(schemaType, formData, verdict) ==
    IF SchemaLookup(schemaType) = "none"
    THEN BadRequest("Invalid schema type. Use 'signup' or switch to dynamic validation.")
    ELSE IF SchemaLookup(schemaType) = "inherited" THEN Caught(<<>>, <<>>)
    ELSE SchemaModeAfter(SignupIssues(formData), SignupChecks(formData, verdict), formData)

\* if (requiredFieldErrors.length === 0) { ... }: the issues pushed and the
\* value of validated
StructuralStep(requiredFieldErrors, dynamicResult) ==
    [errors |-> IF Len(requiredFieldErrors) = 0 /\ ~dynamicResult.success THEN dynamicResult.errors ELSE <<>>,
     validated |-> IF Len(requiredFieldErrors) = 0 /\ dynamicResult.success
                   THEN Obj(dynamicResult.data) ELSE JUndefined]

\* if (customRules && Object.keys(customRules).length > 0) { ... }
CustomStep(formData, fieldRequirements, customRules) ==
    IF Truthy(customRules) /\ Len(customRules.o) > 0
    THEN validateWithCustomRules(formData, mergeValidationRules(fieldRequirements, customRules))
    ELSE <<>>

\* The end of the dynamic branch: the password loop has run on the errors
\* accumulated before it
DynamicModeAfter(beforePassword, validated, passwords, formData, verdict) ==
    IF passwords.threw THEN Caught(<<>>, beforePassword)
    ELSE Aggregate(beforePassword \o passwords.errors \o DynamicEmailChecks(formData, verdict),
                   validated, TRUE, formData)

DynamicModeSteps(requiredFieldErrors, structural, formData, fieldRequirements, customRules, verdict) ==
    DynamicModeAfter(requiredFieldErrors \o structural.errors
                        \o CustomStep(formData, fieldRequirements, customRules),
                     structural.validated, DynamicPasswordChecks(formData), formData, verdict)

DynamicModeRequired(requiredFieldErrors, formData, fieldRequirements, customRules, verdict) ==
    DynamicModeSteps(requiredFieldErrors,
                     StructuralStep(requiredFieldErrors,
                                    validateDynamicForm(formData, fieldRequirements, customRules)),
                     formData, fieldRequirements, customRules, verdict)

\* The dynamic branch (validationType 'dynamic')
DynamicMode(formData, fieldRequirements, customRules, verdict) ==
    DynamicModeRequired(validateRequiredFields(formData, fieldRequirements),
                        formData, fieldRequirements, customRules, verdict)

\* validateFormData after the trimming loop
Dispatch(schemaType, validationType, rawFormData, formData, fieldRequirements, customRules, verdict) ==
    LET isLegacyMode == Truthy(schemaType) /\ ~Truthy(validationType)
        isDynamicMode == validationType = Str("dynamic")
        isSchemaMode == validationType = Str("schema") \/ isLegacyMode
    IN  IF ~Truthy(rawFormData) THEN BadRequest("formData is required")
        ELSE IF isSchemaMode THEN SchemaMode(schemaType, formData, verdict)
        ELSE IF isDynamicMode THEN DynamicMode(formData, fieldRequirements, customRules, verdict)
        ELSE BadRequest("Invalid validationType. Use 'schema' or 'dynamic'.")

\* The trimming loop writing lower-cased values into formData
BodyAfterLowerCased(body) ==
    IF Get(body, "formData").t = "object"
    THEN Put(body, "formData",
             Obj([i \in 1..Len(Get(body, "formData").o) |->
                    IF IsString(Get(body, "formData").o[i].v)
                    THEN Entry(Get(body, "formData").o[i].k,
                               Str(ToLowerCase(Trim(Get(body, "formData").o[i].v.s))))
                    ELSE Get(body, "formData").o[i]]))
    ELSE body

\* req.body after validateFormData: the trimming loop writes into the
\* formData object of the request, nothing else is written to
BodyAfter(body) ==
    IF Get(body, "formData").t = "object"
    THEN Put(body, "formData", Obj(TrimFormData(Get(body, "formData").o)))
    ELSE body

\* validateFormData(req, res): the response for a request body
validateFormData(body, verdict) ==
    Dispatch(Get(body, "schemaType"), Get(body, "validationType"), Get(body, "formData"),
             TrimFormData(Get(body, "formData").o), Get(body, "fieldRequirements"),
             Get(body, "customRules"), verdict)

----------------------------------------------------------------------------
(* Domain reputation: src/validators/emailDomainValidator.ts and the cache *)
(* src/services/redisCache.ts                                              *)

Null == "<null>"

\* The domains looked up, and their cache keys
Domains == {"example.com", "mailinator.test"}
CacheKey(domain) == "email_domain:" \o domain

\* redisCache.set(cacheKey, value, 86400) and req.setTimeout(5000, ...)
DOMAIN_CACHE_TTL_SECONDS == 86400
ORACLE_TIMEOUT_MS == 5000

NoEntry == [value |-> Null, expiry |-> 0]
EmptyCache == [key \in {CacheKey(domain) : domain \in Domains} |-> NoEntry]

\* A Redis in which every key has expired
RedisGetExpired(store, key, now) == Null

\* this.client.get(key): the value of a key that has not expired, or null
RedisGet(store, key, now) ==
    IF store[key].value # Null /\ now < store[key].expiry THEN store[key].value ELSE Null

\* this.client.setex(key, ttlSeconds, value)
RedisSetEx(store, key, ttlSeconds, value, now) ==
    [store EXCEPT ![key] = [value |-> value, expiry |-> now + ttlSeconds * 1000]]

\* RedisCache.get on the fallback cache: cached && cached.expiry > Date.now()
FallbackGet(cache, key, now) ==
    IF cache[key].value # Null /\ cache[key].expiry > now THEN cache[key].value ELSE Null

\* RedisCache.get on the fallback cache: an expired entry is deleted
FallbackPurge(cache, key, now) ==
    IF cache[key].value # Null /\ cache[key].expiry <= now THEN [cache EXCEPT ![key] = NoEntry]
    ELSE cache

\* A fallback cache that takes the seconds of the TTL for milliseconds
FallbackSetShortLived(cache, key, ttlSeconds, value, now) ==
    [cache EXCEPT ![key] = [value |-> value, expiry |-> now + ttlSeconds]]

\* RedisCache.set on the fallback cache (cleanupFallbackCache acts only
\* beyond 100 keys, and then on expired entries only)
FallbackSet(cache, key, ttlSeconds, value, now) ==
    [cache EXCEPT ![key] = [value |-> value, expiry |-> now + ttlSeconds * 1000]]

\* What the HTTPS fetch can end with, the value cached and the message resolved
OracleOutcomes == {"invalid status", "spammy content", "clean", "error", "timeout"}

\* A cache that flags a domain only on what its page answered
CachedValueOfAnswer(outcome) ==
    IF outcome \in {"invalid status", "spammy content"} THEN "true" ELSE "false"

CachedValue(outcome) == IF outcome = "clean" THEN "false" ELSE "true"

OracleMessage(outcome) ==
    CASE outcome = "invalid status" -> "Email domain doesn't return a valid HTTP response"
      [] outcome = "spammy content" -> "Email domain page contains spammy content"
      [] outcome = "clean" -> ""
      [] outcome = "error" -> "Email domain does not support HTTPS or is invalid"
      [] outcome = "timeout" -> "Email domain timed out"

\* lines 10-13: the answer given from the cache ("" for null)
CachedMessage(cachedResult) == IF cachedResult = "true" THEN "Domain previously flagged" ELSE ""

NoLookup == [domain |-> "", start |-> 0, read |-> ""]

\* A resolved call: when it started, the store its cache read used, whether
\* the HTTPS fetch was made, the store its cache write used, and its result
Resolved(pending, oracle, wrote, result) ==
    [domain |-> pending.domain, start |-> pending.start, read |-> pending.read,
     oracle |-> oracle, wrote |-> wrote, result |-> result]

\* The store a cache command ends up using: Redis when the client is
\* connected and the command does not throw, otherwise the fallback cache
StoreUsed(connected, throws) == IF connected /\ ~throws THEN "redis" ELSE "fallback"

\* No callback of an HTTPS request has run
OracleIdle ==
    /\ fired = {}
    /\ writes = <<>>
    /\ settled = <<>>
    /\ cacheOps = <<>>

DomainIdle ==
    /\ OracleIdle
    /\ isConnected = TRUE
    /\ redisKeys = EmptyCache
    /\ fallbackCache = EmptyCache
    /\ lookup = NoLookup
    /\ lookups = <<>>

\* checkEmailDomain, lines 7-15: the cache is read; a cached result answers
\* the call, otherwise the HTTPS request is sent
StartLookup(domain, gap, throws, maxLookups) ==
    /\ lookup = NoLookup
    /\ Len(lookups) < maxLookups
    /\ throws => isConnected
    /\ clock' = clock + gap
    /\ LET now == clock + gap
           read == StoreUsed(isConnected, throws)
           cachedResult == IF read = "redis" THEN RedisGet(redisKeys, CacheKey(domain), now)
                           ELSE FallbackGet(fallbackCache, CacheKey(domain), now)
           pending == [domain |-> domain, start |-> now, read |-> read]
       IN  /\ fallbackCache' = IF read = "redis" THEN fallbackCache
                               ELSE FallbackPurge(fallbackCache, CacheKey(domain), now)
           /\ IF cachedResult # Null
              THEN /\ lookups' = Append(lookups, Resolved(pending, FALSE, "none", CachedMessage(cachedResult)))
                   /\ lookup' = NoLookup
              ELSE /\ lookup' = pending
                   /\ UNCHANGED lookups
    /\ UNCHANGED <<isConnected, redisKeys, fired, writes, settled, cacheOps, rateVars, validationVars, unitVars>>

\* checkEmailDomain, lines 17-62: the HTTPS request ends; the verdict is
\* cached for 24 hours and the call resolves
OracleResponds(outcome, throws) ==
    /\ lookup # NoLookup
    /\ throws => isConnected
    /\ clock' = clock + (IF outcome = "timeout" THEN ORACLE_TIMEOUT_MS ELSE 0)
    /\ LET now == clock + (IF outcome = "timeout" THEN ORACLE_TIMEOUT_MS ELSE 0)
           wrote == StoreUsed(isConnected, throws)
           key == CacheKey(lookup.domain)
       IN  /\ redisKeys' = IF wrote = "redis"
                           THEN RedisSetEx(redisKeys, key, DOMAIN_CACHE_TTL_SECONDS, CachedValue(outcome), now)
                           ELSE redisKeys
           /\ fallbackCache' = IF wrote = "redis" THEN fallbackCache
                               ELSE FallbackSet(fallbackCache, key, DOMAIN_CACHE_TTL_SECONDS, CachedValue(outcome), now)
           /\ lookups' = Append(lookups, Resolved(lookup, TRUE, wrote, OracleMessage(outcome)))
    /\ lookup' = NoLookup
    /\ UNCHANGED <<isConnected, fired, writes, settled, cacheOps, rateVars, validationVars, unitVars>>

\* The client's 'error', 'disconnect' and 'connect' events
ConnectionChanges ==
    /\ isConnected' = ~isConnected
    /\ UNCHANGED <<clock, redisKeys, fallbackCache, lookup, lookups, fired, writes, settled,
                   cacheOps, rateVars, validationVars, unitVars>>

\* RedisCache.set(key, value, ttlSeconds), lines 127-145, called at
\* clock + gap: setex on Redis when the client is connected and the command
\* succeeds, otherwise the entry goes to the fallback cache; nothing is thrown
CacheSet(key, value, ttlSeconds, gap, throws, maxOps) ==
    /\ Len(cacheOps) < maxOps
    /\ throws => isConnected
    /\ clock' = clock + gap
    /\ IF StoreUsed(isConnected, throws) = "redis"
       THEN /\ redisKeys' = RedisSetEx(redisKeys, key, ttlSeconds, value, clock + gap)
            /\ UNCHANGED fallbackCache
       ELSE /\ fallbackCache' = FallbackSet(fallbackCache, key, ttlSeconds, value, clock + gap)
            /\ UNCHANGED redisKeys
    /\ cacheOps' = Append(cacheOps, [op |-> "set", key |-> key, value |-> value, at |-> clock + gap,
                                      ttlSeconds |-> ttlSeconds,
                                      store |-> StoreUsed(isConnected, throws)])
    /\ UNCHANGED <<isConnected, lookup, lookups, fired, writes, settled, rateVars, validationVars, unitVars>>

\* RedisCache.get(key), lines 104-125, called at clock + gap: the answer of
\* Redis when the client is connected and the command succeeds (null
\* included), otherwise the live entry of the fallback cache or null, an
\* expired entry being deleted; nothing is thrown
CacheGet(key, gap, throws, maxOps) ==
    /\ Len(cacheOps) < maxOps
    /\ throws => isConnected
    /\ clock' = clock + gap
    /\ fallbackCache' = IF StoreUsed(isConnected, throws) = "redis" THEN fallbackCache
                        ELSE FallbackPurge(fallbackCache, key, clock + gap)
    /\ cacheOps' = Append(cacheOps,
                          [op |-> "get", key |-> key,
                           value |-> IF StoreUsed(isConnected, throws) = "redis"
                                     THEN RedisGet(redisKeys, key, clock + gap)
                                     ELSE FallbackGet(fallbackCache, key, clock + gap),
                           at |-> clock + gap, ttlSeconds |-> 0,
                           store |-> StoreUsed(isConnected, throws)])
    /\ UNCHANGED <<isConnected, redisKeys, lookup, lookups, fired, writes, settled, rateVars, validationVars, unitVars>>

\* redisCache.set(cacheKey, value, 86400).finally(() => resolve(message)),
\* called by a callback of the HTTPS request.  With a connected client the
\* setex command is sent and its answer awaited; without one the value goes
\* to the fallback cache and resolve() is called before any other callback
\* can run
SetThenResolve(value, message) ==
    IF isConnected
    THEN /\ writes' = Append(writes, [value |-> value, message |-> message])
         /\ UNCHANGED <<fallbackCache, settled>>
    ELSE /\ fallbackCache' = FallbackSet(fallbackCache, CacheKey(lookup.domain),
                                         DOMAIN_CACHE_TTL_SECONDS, value, clock')
         /\ settled' = Append(settled, message)
         /\ UNCHANGED writes

\* lines 18-47: the response arrives (no other callback has run)
ResponseArrives(outcome) ==
    /\ lookup # NoLookup
    /\ fired = {}
    /\ outcome \in {"invalid status", "spammy content", "clean"}
    /\ fired' = {"response"}
    /\ clock' = clock
    /\ SetThenResolve(CachedValue(outcome), OracleMessage(outcome))
    /\ UNCHANGED <<isConnected, redisKeys, lookup, lookups, cacheOps, rateVars, validationVars, unitVars>>

\* lines 56-61: the socket has been idle for 5 seconds; the request is
\* destroyed and the verdict 'true' is written
TimeoutFires ==
    /\ lookup # NoLookup
    /\ fired = {}
    /\ fired' = {"timeout"}
    /\ clock' = clock + ORACLE_TIMEOUT_MS
    /\ SetThenResolve("true", OracleMessage("timeout"))
    /\ UNCHANGED <<isConnected, redisKeys, lookup, lookups, cacheOps, rateVars, validationVars, unitVars>>

\* lines 50-54: the request emits 'error': on a failure of the connection
\* before any other callback, or (socket hang up) once the timeout callback
\* has destroyed the request
RequestErrors ==
    /\ lookup # NoLookup
    /\ fired \in {{}, {"timeout"}}
    /\ fired' = fired \cup {"error"}
    /\ clock' = clock
    /\ SetThenResolve("true", OracleMessage("error"))
    /\ UNCHANGED <<isConnected, redisKeys, lookup, lookups, cacheOps, rateVars, validationVars, unitVars>>

\* RedisCache.set, lines 131-144: Redis answers the oldest setex command, or
\* the command is rejected and the value goes to the fallback cache; then
\* finally() calls resolve()
WriteCompletes(throws) ==
    /\ writes # <<>>
    /\ IF throws
       THEN /\ fallbackCache' = FallbackSet(fallbackCache, CacheKey(lookup.domain),
                                            DOMAIN_CACHE_TTL_SECONDS, Head(writes).value, clock)
            /\ UNCHANGED redisKeys
       ELSE /\ redisKeys' = RedisSetEx(redisKeys, CacheKey(lookup.domain),
                                       DOMAIN_CACHE_TTL_SECONDS, Head(writes).value, clock)
            /\ UNCHANGED fallbackCache
    /\ settled' = Append(settled, Head(writes).message)
    /\ writes' = Tail(writes)
    /\ UNCHANGED <<clock, isConnected, lookup, lookups, fired, cacheOps, rateVars, validationVars, unitVars>>

----------------------------------------------------------------------------
(* Request bodies the environment can send *)

MakeBody(schemaType, validationType, formData, fieldRequirements, customRules) ==
    <<Entry("schemaType", schemaType), Entry("validationType", validationType),
      Entry("formData", formData), Entry("fieldRequirements", fieldRequirements),
      Entry("customRules", customRules)>>

\* One field name per field type, with a value its type schema accepts and
\* one it rejects
FieldSamples == <<
    [name |-> "email",      good |-> "user@example.com",    bad |-> "nope"],
    [name |-> "password",   good |-> "Secur3!Passw",        bad |-> "short"],
    [name |-> "first_name", good |-> "John",                bad |-> "J"],
    [name |-> "last_name",  good |-> "Doe",                 bad |-> "D0e"],
    [name |-> "full_name",  good |-> "Jane Smith",          bad |-> "J"],
    [name |-> "phone",      good |-> "1234567890",          bad |-> "12"],
    [name |-> "age",        good |-> "30",                  bad |-> "7"],
    [name |-> "website",    good |-> "https://example.com", bad |-> "nope"],
    [name |-> "username",   good |-> "john_doe",            bad |-> "ab"],
    [name |-> "zip_code",   good |-> "12345",               bad |-> "!"],
    [name |-> "country",    good |-> "France",              bad |-> "F"],
    [name |-> "state",      good |-> "Ohio",                bad |-> "0"],
    [name |-> "city",       good |-> "Paris",               bad |-> "P"],
    [name |-> "address",    good |-> "1 Main Street",       bad |-> "x"],
    [name |-> "company",    good |-> "Acme",                bad |-> "A"],
    [name |-> "job_title",  good |-> "Engineer",            bad |-> "E"],
    [name |-> "birth_date", good |-> "1990-01-01",          bad |-> "1990"],
    [name |-> "notes",      good |-> " hello ",             bad |-> ""] >>

SampleValues(sample) == {Str(sample.good), Str(sample.bad), Str(""), Str("  "), JNull}

\* Submissions with one field
SingleFieldForms ==
    UNION {{<<Entry(FieldSamples[i].name, v)>> : v \in SampleValues(FieldSamples[i])} : i \in 1..Len(FieldSamples)}

\* Submissions with a password and the name fields the password check looks for
PasswordForms ==
    {<<Entry("email", Str(e)), Entry("password", Str(p)), Entry("first_name", f), Entry("last_name", Str("Doe"))>> :
        e \in {"", "user@example.com"},
        p \in {"", "Secur3!Passw", "MyJohnny1!pass"},
        f \in {Str("Johnny"), Str("Al"), JNull}}

Forms == SingleFieldForms \cup PasswordForms

Required(field, flag) == <<Entry(field, Obj(<<Entry("required", Bool(flag))>>))>>

\* fieldRequirements sent along with a submission: none, its first field
\* required or not, a field the submission lacks required, or both
RequirementsFor(form) ==
    {JUndefined, Obj(Required(form[1].k, TRUE)), Obj(Required(form[1].k, FALSE)),
     Obj(Required("nickname", TRUE)),
     Obj(Required(form[1].k, TRUE) \o Required("nickname", TRUE))}

\* customRules sent along with a submission
RulesFor(form) ==
    {JUndefined,
     Obj(<<>>),
     Obj(<<Entry(form[1].k, Obj(<<Entry("minLength", Num(3)), Entry("message", Str("Too short"))>>))>>),
     Obj(<<Entry(form[1].k, Obj(<<Entry("required", Bool(TRUE))>>))>>)}

DynamicBodies ==
    UNION {{MakeBody(JUndefined, Str("dynamic"), Obj(form), fr, cr) :
                fr \in RequirementsFor(form), cr \in RulesFor(form)} : form \in Forms}

SignupForms ==
    {<<Entry("firstname", Str(f)), Entry("lastname", Str("Doe")), Entry("email", Str(e)), Entry("password", Str(p))>> :
        f \in {"John", "J"},
        e \in {"john@example.com", "john+x@example.com", "nope"},
        p \in {"MyJohnPassword1!", "Secur3!Passw", "short", ""}}
    \cup {<<Entry("firstname", Str("John")), Entry("email", Str("john@example.com"))>>}

SchemaTypes == {JUndefined, Str("signup"), Str("profile"), Str("constructor")}
ValidationTypes == {JUndefined, Str("schema"), Str("dynamic"), Str("invalid")}

SchemaBodies ==
    {MakeBody(Str("signup"), vt, Obj(form), JUndefined, JUndefined) :
        vt \in {JUndefined, Str("schema")}, form \in SignupForms}

\* Every combination of the dispatch keys, with and without formData
DispatchBodies ==
    {MakeBody(st, vt, fd, JUndefined, JUndefined) :
        st \in SchemaTypes, vt \in ValidationTypes,
        fd \in {JUndefined, Obj(<<>>), Obj(<<Entry("notes", Str("hello"))>>)}}

Bodies == DynamicBodies \cup SchemaBodies \cup DispatchBodies

\* What checkEmailDomain can resolve with for a request ("" for null)
Verdicts == {"", "Domain previously flagged"}

----------------------------------------------------------------------------
(* The route: router.post("/validate", rateLimitMiddleware, authenticateToken, *)
(* validateFormData)                                                           *)

\* Clients, and a request whose address express could not determine
IPs == {"::1"}
NoIp == Undefined

AuthHeaders == {NoHeader, "Bearer", "Bearer wrong-token", "Bearer " \o AUTH_TOKEN}
GoodHeader == "Bearer " \o AUTH_TOKEN

\* The bodies sent through the route
ValidBody == MakeBody(JUndefined, Str("dynamic"), Obj(<<>>), JUndefined, JUndefined)
HttpBodies == {ValidBody, MakeBody(JUndefined, Str("dynamic"), JUndefined, JUndefined, JUndefined)}

\* Steps of the clock between two requests
RegularGap == 1
Gaps == {0, RegularGap, RATE_LIMIT_WINDOW_MS - 1, RATE_LIMIT_WINDOW_MS}
HttpGaps == {0, RegularGap}

\* Outcomes of redisCache.executePipeline: the results, null, or a rejection
PipelineOutcomes == {"results", "null", "throws"}

\* Bounds of the two regimes under which the route is explored
MaxBurstRequests == 104
MaxHttpRequests == 2
MaxInFlight == 2

\* A response, with history about the request it answers: what the pipeline
\* did ("none" when the limiter was bypassed), the count the limiter read,
\* whether the transaction recorded the request, whether console.error was
\* called, whether next() was called and whether validateFormData ran
NoResponse ==
    [status |-> 0, ip |-> NoIp, method |-> "", now |-> 0, header |-> NoHeader, retryAfter |-> -1,
     count |-> -1, pipeline |-> "", recorded |-> FALSE, logged |-> FALSE, next |-> FALSE,
     orchestratorRan |-> FALSE]

\* Downstream without the token check: validateFormData mounted alone
DownstreamUnguarded(req) ==
    [status |-> validateFormData(req.body, "").status, orchestratorRan |-> TRUE]

\* What the handlers after the rate limiter answer: authenticateToken, then
\* validateFormData
Downstream(req) ==
    IF AuthenticateToken(req.header) # 0
    THEN [status |-> AuthenticateToken(req.header), orchestratorRan |-> FALSE]
    ELSE [status |-> validateFormData(req.body, "").status, orchestratorRan |-> TRUE]

\* next(): the response is the one the handlers after the rate limiter give
PassedOn(req, downstream, count, pipeline, logged) ==
    [status |-> downstream.status, ip |-> req.ip, method |-> req.method, now |-> req.now,
     header |-> req.header, retryAfter |-> -1, count |-> count, pipeline |-> pipeline,
     recorded |-> pipeline = "results", logged |-> logged, next |-> TRUE,
     orchestratorRan |-> downstream.orchestratorRan]

\* lines 9-17: next() without touching the store
Bypass(req) == PassedOn(req, Downstream(req), -1, "none", FALSE)

\* line 44: next() after a count within the limit
Admit(req, count) == PassedOn(req, Downstream(req), count, "results", FALSE)

\* lines 38-42: res.status(429).set('Retry-After', ...).json(...)
RespondTooManyRequests(req, count) ==
    [status |-> 429, ip |-> req.ip, method |-> req.method, now |-> req.now,
     header |-> req.header, retryAfter |-> RetryAfterSeconds(req.now), count |-> count,
     pipeline |-> "results", recorded |-> TRUE, logged |-> FALSE, next |-> FALSE,
     orchestratorRan |-> FALSE]

\* A catch block that fails closed: the request is refused, nothing is logged
CatchBlockClosed(req, outcome) ==
    [RespondTooManyRequests(req, -1) EXCEPT !.pipeline = outcome, !.recorded = FALSE]

\* lines 32-34 and 45-49: the pipeline resolved with null (the handler throws)
\* or rejected; the catch block logs the error and calls next()
CatchBlock(req, outcome) == PassedOn(req, Downstream(req), -1, outcome, TRUE)

\* rateLimitMiddleware, lines 9-21: a POST with a known address reads
\* Date.now() and awaits the pipeline
Arrive(ip, header, body, gap, maxRequests, maxInFlight) ==
    /\ nreq < maxRequests
    /\ Len(inflight) < maxInFlight
    /\ clock' = clock + gap
    /\ inflight' = Append(inflight, [ip |-> ip, method |-> "POST", now |-> clock + gap,
                                      header |-> header, body |-> body])
    /\ nreq' = nreq + 1
    /\ detour' = (detour \/ gap # RegularGap)
    /\ UNCHANGED <<zset, expireAt, resp, errorLog, served, vreq, vres, vbody, vagain, call, ret, domainVars>>

\* rateLimitMiddleware, lines 9-17: any other request goes straight to next()
ArriveBypass(ip, method, header, body, gap, maxRequests) ==
    /\ nreq < maxRequests
    /\ method # "POST" \/ ip = NoIp
    /\ clock' = clock + gap
    /\ resp' = Bypass([ip |-> ip, method |-> method, now |-> clock + gap,
                       header |-> header, body |-> body])
    /\ nreq' = nreq + 1
    /\ detour' = (detour \/ gap # RegularGap)
    /\ UNCHANGED <<zset, expireAt, inflight, errorLog, served, vreq, vres, vbody, vagain, call, ret, domainVars>>

Remove(seq, i) == SubSeq(seq, 1, i - 1) \o SubSeq(seq, i + 1, Len(seq))

\* rateLimitMiddleware, lines 23-44: the pipeline resolves with its results
PipelineResolves(i) ==
    /\ i \in 1..Len(inflight)
    /\ LET req == inflight[i]
           results == PipelineCommands(LiveSet(req.ip), req.now)
           currentRequestCount == results.zcard
       IN  /\ zset' = [zset EXCEPT ![req.ip] = results.zset]
           /\ expireAt' = [expireAt EXCEPT ![req.ip] = results.expire]
           /\ resp' = IF OverLimit(currentRequestCount)
                      THEN RespondTooManyRequests(req, currentRequestCount)
                      ELSE Admit(req, currentRequestCount)
           /\ served' = Append(served, [ip |-> req.ip, ts |-> req.now,
                                         admitted |-> ~OverLimit(currentRequestCount)])
    /\ inflight' = Remove(inflight, i)
    /\ UNCHANGED <<clock, errorLog, nreq, detour, vreq, vres, vbody, vagain, call, ret, domainVars>>

\* rateLimitMiddleware, lines 32-34 and 45-49: the pipeline resolves with null
\* or rejects; the error is logged and the request goes on
PipelineFails(i, outcome) ==
    /\ i \in 1..Len(inflight)
    /\ outcome \in PipelineOutcomes \ {"results"}
    /\ errorLog' = errorLog + 1
    /\ resp' = CatchBlock(inflight[i], outcome)
    /\ inflight' = Remove(inflight, i)
    /\ UNCHANGED <<clock, zset, expireAt, served, nreq, detour, vreq, vres, vbody, vagain, call, ret, domainVars>>

NoValidation == Response(0, "", <<>>, JUndefined, JUndefined, <<>>)

NoRevalidation == [verdict |-> "", res |-> NoValidation]

\* No helper function is being called; a call that has not returned yet, and one that has
NoCall == [fn |-> ""]
NoReturn == [done |-> FALSE, value |-> ""]
Return(value) == [done |-> TRUE, value |-> value]

\* validateFormData answers the request vreq
Validate ==
    /\ vres = NoValidation
    /\ vreq.body # <<>>
    /\ vres' = validateFormData(vreq.body, vreq.verdict)
    /\ vbody' = BodyAfter(vreq.body)
    /\ UNCHANGED <<vreq, vagain, clock, zset, expireAt, inflight, resp, errorLog, served, nreq, detour, call, ret, domainVars>>

\* The state after start-up: no request seen, empty store
Init ==
    /\ clock = 0
    /\ zset = [ip \in IPs |-> {}]
    /\ expireAt = [ip \in IPs |-> -1]
    /\ inflight = <<>>
    /\ resp = NoResponse
    /\ errorLog = 0
    /\ served = <<>>
    /\ nreq = 0
    /\ detour = FALSE
    /\ vreq = [body |-> <<>>, verdict |-> ""]
    /\ vres = NoValidation
    /\ vbody = <<>>
    /\ vagain = NoRevalidation
    /\ call = NoCall
    /\ ret = NoReturn
    /\ DomainIdle

\* One client sending authenticated requests one after the other, the clock
\* moving by RegularGap except for at most one other step
NextBurst ==
    \/ \E ip \in IPs, gap \in Gaps :
          /\ gap # RegularGap => ~detour
          /\ Arrive(ip, GoodHeader, ValidBody, gap, MaxBurstRequests, 1)
    \/ PipelineResolves(1)

SpecBurst == Init /\ [][NextBurst]_vars

\* A few requests of every kind, overlapping, with a store that can fail
NextHttp ==
    \/ \E ip \in IPs, header \in AuthHeaders, body \in HttpBodies, gap \in HttpGaps :
          Arrive(ip, header, body, gap, MaxHttpRequests, MaxInFlight)
    \/ \E ip \in IPs \cup {NoIp}, method \in {"POST", "GET"}, header \in AuthHeaders,
          body \in HttpBodies, gap \in HttpGaps :
          ArriveBypass(ip, method, header, body, gap, MaxHttpRequests)
    \/ \E i \in 1..MaxInFlight : PipelineResolves(i)
    \/ \E i \in 1..MaxInFlight, outcome \in PipelineOutcomes : PipelineFails(i, outcome)

SpecHttp == Init /\ [][NextHttp]_vars

\* The orchestrator on every request of the pool: the request is drawn at
\* the start and validateFormData answers it
InitValidate ==
    /\ clock = 0
    /\ zset = [ip \in IPs |-> {}]
    /\ expireAt = [ip \in IPs |-> -1]
    /\ inflight = <<>>
    /\ resp = NoResponse
    /\ errorLog = 0
    /\ served = <<>>
    /\ nreq = 0
    /\ detour = FALSE
    /\ vreq \in {[body |-> body, verdict |-> verdict] : body \in Bodies, verdict \in Verdicts}
    /\ vres = NoValidation
    /\ vbody = <<>>
    /\ vagain = NoRevalidation
    /\ call = NoCall
    /\ ret = NoReturn
    /\ DomainIdle

NextValidate == Validate

\* The request object validated is handed to validateFormData once more,
\* with the same rules; the domain check answers with verdict
Revalidate(verdict) ==
    /\ vres.status = 200
    /\ vagain = NoRevalidation
    /\ vagain' = [verdict |-> verdict, res |-> validateFormData(vbody, verdict)]
    /\ vbody' = BodyAfter(vbody)
    /\ UNCHANGED <<vreq, vres, clock, rateVars, unitVars, domainVars>>

NextRevalidate ==
    \/ Validate
    \/ \E verdict \in Verdicts : Revalidate(verdict)

SpecRevalidate == InitValidate /\ [][NextRevalidate]_vars

SpecValidate == InitValidate /\ [][NextValidate]_vars

\* Dynamic submissions with a password and, in several orders of the keys,
\* fields detected as names (first_name, last_name) and fields that only
\* have "first" or "last" in their name
SiblingFields(password) ==
    LET P == Entry("password", Str(password))
        FN == Entry("first_name", Str("Johnny"))
        FL == Entry("first_login", Str("Monday"))
        LN == Entry("last_name", Str("Doeson"))
        LS == Entry("last_seen", Str("Friday"))
    IN  {<<FL, FN, LN, P>>, <<FN, FL, LN, P>>, <<P, FN, LN>>, <<P, FL, LN>>, <<P, FN>>, <<P, LN>>,
         <<P>>, <<LS, LN, FN, P>>, <<LN, LS, FN, P>>, <<P, FL, LS>>, <<FL, LS, FN, LN, P>>,
         <<P, LN, FN>>}

SiblingPasswords == {"MyJohnny1!pass", "MyMonday1!pass", "Secur3!Passw", "short", ""}

SiblingBodies ==
    UNION {{MakeBody(JUndefined, Str("dynamic"), Obj(form), JUndefined, JUndefined) :
                form \in SiblingFields(password)} : password \in SiblingPasswords}

InitSiblings ==
    /\ clock = 0
    /\ zset = [ip \in IPs |-> {}]
    /\ expireAt = [ip \in IPs |-> -1]
    /\ inflight = <<>>
    /\ resp = NoResponse
    /\ errorLog = 0
    /\ served = <<>>
    /\ nreq = 0
    /\ detour = FALSE
    /\ vreq \in {[body |-> body, verdict |-> verdict] : body \in SiblingBodies, verdict \in Verdicts}
    /\ vres = NoValidation
    /\ vbody = <<>>
    /\ vagain = NoRevalidation
    /\ call = NoCall
    /\ ret = NoReturn
    /\ DomainIdle

SpecSiblings == InitSiblings /\ [][NextValidate]_vars

----------------------------------------------------------------------------
(* Stand-alone calls of the helper functions: the call is drawn at the start *)
(* and the function called returns its value in ret                          *)

Rule(entries) == Obj(entries)

\* Requirements a field can carry in fieldRequirements
RequirementSamples ==
    {Obj(<<Entry("required", Bool(TRUE))>>),
     Obj(<<Entry("required", Bool(FALSE))>>),
     Obj(<<Entry("type", Str("email"))>>),
     Obj(<<Entry("required", Bool(TRUE)),
           Entry("customRule", Rule(<<Entry("minLength", Num(3)), Entry("message", Str("At least 3"))>>))>>),
     Obj(<<Entry("required", Bool(FALSE)),
           Entry("customRule", Rule(<<Entry("required", Bool(TRUE)), Entry("maxLength", Num(9))>>))>>)}

\* Rules a field can carry in customRules
RuleSamples ==
    {Rule(<<Entry("minLength", Num(5))>>),
     Rule(<<Entry("required", Bool(FALSE)), Entry("message", Str("Optional"))>>),
     Rule(<<Entry("minLength", JNull), Entry("pattern", Str("^[A-Z]"))>>)}

MergeRequirementMaps ==
    {JUndefined, Obj(<<>>)}
    \cup {Obj(<<Entry("email", r)>>) : r \in RequirementSamples}
    \cup {Obj(<<Entry("email", r), Entry("nickname", Obj(<<Entry("required", Bool(TRUE))>>))>>) :
            r \in RequirementSamples}

MergeRuleMaps ==
    {JUndefined, Obj(<<>>)}
    \cup {Obj(<<Entry("email", r)>>) : r \in RuleSamples}
    \cup {Obj(<<Entry("notes", r)>>) : r \in RuleSamples}
    \cup {Obj(<<Entry("nickname", r), Entry("email", Rule(<<Entry("maxLength", Num(7))>>))>>) : r \in RuleSamples}

MergeCalls ==
    {[fn |-> "mergeValidationRules", fieldRequirements |-> fr, customRules |-> cr] :
        fr \in MergeRequirementMaps, cr \in MergeRuleMaps}

\* Calls of validatePassword as its callers make them: the password, the
\* first name and the last name
PasswordSamples ==
    {"short", "John1!", "smith", "toolongpasswordthatexceedslimit123!",
     "nouppercase123!", "NOLOWERCASE123!", "NoSpecialChars123", "NoNumbers!@#$%",
     "ContainsJohn123!", "JOHN_Password1!", "SmithAndWesson1!", "MyLiPassword1!",
     "ValidPass123!"}

PasswordCalls ==
    {[fn |-> "validatePassword", password |-> Str(p), firstname |-> Str(f), lastname |-> Str(l)] :
        p \in PasswordSamples, f \in {"John", "Li", "Alice"}, l \in {"Doe", "Smith", "Wu"}}

\* Field names: alternatives of the patterns, in other cases of the letters
\* and with spaces around; names that only the substring rules take, some of
\* them under several rules; names that no rule takes
FieldNameSamples ==
    {"email", "User_Email", " e_mail ", "email_address",
     "pwd", "user_password", "Confirm_Password",
     "fname", "given_name", "family_name", "surname", "lname",
     "user_name", "USERNAME ", "login", "handle",
     "name", "display_name", "full_name",
     "mobile_number", "cell", "years_old", "age", "homepage", "link",
     "postcode", "zip_code", "nation", "region", "province", "locality", "town",
     "street_address", "address_line", "org", "business", "job_title", "position",
     "birthday", "birth_date", "created_at",
     "work_email", "email_password", "passport", "home_phone", "mobile2",
     "my_username", "my_user_name", "first_last_name", "customer_first_name",
     "customer_last_name", "nickname", "user_nickname", "state_name",
     "message", "profile_url", "my_website", "postal", "zip5", "country_code",
     "home_state", "province_code", "city_name", "hometown", "street2", "address2",
     "company_title", "organization_id", "title_prefix", "position_held",
     "start_date", "birth_year", "city_state", "url_date",
     "", "   ", "notes", "user", "foo", " Notes "}

DetectCalls == {[fn |-> "detectFieldType", fieldName |-> n] : n \in FieldNameSamples}

\* Values of the field "code" that a rule is evaluated on
RuleValueSamples ==
    {JUndefined, JNull, Str(""), Str("  "), Num(0), Num(7), Str("ab"), Str("abcdef"),
     Str("5"), Str("50"), Str("a,b,c"), Str("Xab")}

\* Rules: one check each, two checks that a value can fail together (in
\* either order of the keys), with and without required, message and
\* dependsOn
RuleChecks == <<
    <<Entry("minLength", Num(3))>>,
    <<Entry("maxLength", Num(3))>>,
    <<Entry("pattern", Str("^[0-9]+$"))>>,
    <<Entry("pattern", Str("["))>>,
    <<Entry("contains", Str("X"))>>,
    <<Entry("startsWith", Str("x"))>>,
    <<Entry("endsWith", Str("z"))>>,
    <<Entry("min", Num(10))>>,
    <<Entry("max", Num(10))>>,
    <<Entry("minItems", Num(2))>>,
    <<Entry("maxItems", Num(2))>>,
    <<Entry("customValidator", Str("value.length >= 3"))>>,
    <<Entry("minLength", Num(3)), Entry("pattern", Str("^[0-9]+$"))>>,
    <<Entry("pattern", Str("^[0-9]+$")), Entry("maxLength", Num(3))>>,
    <<Entry("contains", Str("X")), Entry("pattern", Str("^[0-9]+$"))>>,
    <<Entry("startsWith", Str("x")), Entry("contains", Str("q"))>>,
    <<Entry("endsWith", Str("z")), Entry("startsWith", Str("x"))>>,
    <<Entry("min", Num(10)), Entry("endsWith", Str("z"))>>,
    <<Entry("minItems", Num(2)), Entry("min", Num(10))>>,
    <<Entry("maxItems", Num(2)), Entry("max", Num(10))>>,
    <<Entry("customValidator", Str("value.length >= 3")), Entry("minItems", Num(2))>>,
    <<Entry("customValidator", Str("value.length >= 3")), Entry("minLength", Num(5))>>,
    <<>> >>

RuleFlags ==
    {<<>>,
     <<Entry("required", Bool(TRUE))>>,
     <<Entry("required", Bool(FALSE))>>,
     <<Entry("required", Bool(TRUE)), Entry("message", Str("Bad code"))>>,
     <<Entry("dependsOn", Str("account_type")), Entry("dependsOnValue", Str("premium"))>>,
     <<Entry("required", Bool(TRUE)), Entry("dependsOn", Str("account_type")), Entry("dependsOnValue", Str("premium"))>>,
     <<Entry("dependsOn", Str("account_type"))>>,
     <<Entry("required", Bool(TRUE)), Entry("dependsOn", Str("account_type"))>>}

AdvancedRuleSamples == {flags \o RuleChecks[i] : flags \in RuleFlags, i \in 1..Len(RuleChecks)}

\* The other fields of the submission
SiblingSamples ==
    {<<>>, <<Entry("account_type", Str("premium"))>>, <<Entry("account_type", Str("basic"))>>}

\* The submission holding the value: formData[fieldName] is the value
FormWith(fieldName, fieldValue, siblings) ==
    IF fieldValue.t = "undefined" THEN siblings ELSE <<Entry(fieldName, fieldValue)>> \o siblings

AdvancedCalls ==
    {[fn |-> "validateAdvancedRule", fieldName |-> "code", fieldValue |-> v,
      allFormData |-> FormWith("code", v, siblings), rule |-> rule] :
        v \in RuleValueSamples, siblings \in SiblingSamples, rule \in AdvancedRuleSamples}

UnitCalls == MergeCalls \cup PasswordCalls \cup DetectCalls \cup AdvancedCalls

Returns(fn) == call.fn = fn /\ ~ret.done

\* mergeValidationRules(fieldRequirements, customRules) returns the merged map
MergeRules ==
    /\ Returns("mergeValidationRules")
    /\ ret' = Return(mergeValidationRules(call.fieldRequirements, call.customRules))
    /\ UNCHANGED <<clock, zset, expireAt, inflight, resp, errorLog, served, nreq, detour, vreq, vres, vbody, vagain, call, domainVars>>

\* validatePassword(password, firstname, lastname): the function declares
\* (password, fullName), so the first name is its fullName and the third
\* argument is not read
CheckPassword ==
    /\ Returns("validatePassword")
    /\ ret' = Return(validatePassword(call.password, call.firstname))
    /\ UNCHANGED <<clock, rateVars, validationVars, call, domainVars>>

\* detectFieldType(fieldName) returns the type
DetectField ==
    /\ Returns("detectFieldType")
    /\ ret' = Return(detectFieldType(call.fieldName))
    /\ UNCHANGED <<clock, rateVars, validationVars, call, domainVars>>

\* validateAdvancedRule(context, rule) returns the message ("" for null)
CheckRule ==
    /\ Returns("validateAdvancedRule")
    /\ ret' = Return(validateAdvancedRule(call.fieldName, call.fieldValue, call.allFormData, call.rule))
    /\ UNCHANGED <<clock, rateVars, validationVars, call, domainVars>>

InitUnits ==
    /\ clock = 0
    /\ zset = [ip \in IPs |-> {}]
    /\ expireAt = [ip \in IPs |-> -1]
    /\ inflight = <<>>
    /\ resp = NoResponse
    /\ errorLog = 0
    /\ served = <<>>
    /\ nreq = 0
    /\ detour = FALSE
    /\ vreq = [body |-> <<>>, verdict |-> ""]
    /\ vres = NoValidation
    /\ vbody = <<>>
    /\ vagain = NoRevalidation
    /\ call \in UnitCalls
    /\ ret = NoReturn
    /\ DomainIdle

NextUnits ==
    \/ MergeRules
    \/ CheckPassword
    \/ DetectField
    \/ CheckRule

SpecUnits == InitUnits /\ [][NextUnits]_vars

\* Steps of the clock between two lookups of a domain
DayMs == DOMAIN_CACHE_TTL_SECONDS * 1000
LookupGaps == {1, DayMs - 1, DayMs}

MaxLookups == 2

InitDomain ==
    /\ clock = 0
    /\ zset = [ip \in IPs |-> {}]
    /\ expireAt = [ip \in IPs |-> -1]
    /\ inflight = <<>>
    /\ resp = NoResponse
    /\ errorLog = 0
    /\ served = <<>>
    /\ nreq = 0
    /\ detour = FALSE
    /\ vreq = [body |-> <<>>, verdict |-> ""]
    /\ vres = NoValidation
    /\ vbody = <<>>
    /\ vagain = NoRevalidation
    /\ call = NoCall
    /\ ret = NoReturn
    /\ isConnected \in BOOLEAN
    /\ redisKeys = EmptyCache
    /\ fallbackCache = EmptyCache
    /\ lookup = NoLookup
    /\ lookups = <<>>
    /\ OracleIdle

\* Lookups one after the other, with a Redis connection that comes and goes
\* and commands that can fail
NextDomain ==
    \/ \E domain \in Domains, gap \in LookupGaps, throws \in BOOLEAN :
          StartLookup(domain, gap, throws, MaxLookups)
    \/ \E outcome \in OracleOutcomes, throws \in BOOLEAN : OracleResponds(outcome, throws)
    \/ ConnectionChanges

SpecDomain == InitDomain /\ [][NextDomain]_vars

\* One call of checkEmailDomain that misses the cache, with the callbacks of
\* its HTTPS request and the answers of Redis in every order
NextOracle ==
    \/ \E domain \in Domains, gap \in LookupGaps, throws \in BOOLEAN :
          lookups = <<>> /\ fired = {} /\ StartLookup(domain, gap, throws, 1)
    \/ \E outcome \in OracleOutcomes : ResponseArrives(outcome)
    \/ TimeoutFires
    \/ RequestErrors
    \/ \E throws \in BOOLEAN : WriteCompletes(throws)
    \/ ConnectionChanges

SpecOracle == InitDomain /\ [][NextOracle]_vars

\* Calls of set and get on the cache, with a Redis connection that comes and
\* goes and commands that can fail
MaxCacheOps == 3
CacheValues == {"true", "false"}

NextCache ==
    \/ \E value \in CacheValues, gap \in LookupGaps, throws \in BOOLEAN :
          CacheSet(CacheKey("example.com"), value, DOMAIN_CACHE_TTL_SECONDS, gap, throws, MaxCacheOps)
    \/ \E gap \in LookupGaps, throws \in BOOLEAN :
          CacheGet(CacheKey("example.com"), gap, throws, MaxCacheOps)
    \/ ConnectionChanges

SpecCache == InitDomain /\ [][NextCache]_vars

----------------------------------------------------------------------------
(* Properties of the rate limiter and of the route *)

\* The requests of a client whose transaction has executed and that are not
\* older than the window ending at now
RequestsInWindow(ip, now) ==
    Cardinality({i \in 1..Len(served) :
                    served[i].ip = ip /\ served[i].ts > now - RATE_LIMIT_WINDOW_MS})

\* C1: for one client, a request is admitted when it is among the first 100
\* requests of the rolling 60-second window that ends with it, and it is
\* rejected with 429 when it is the 101st, whatever the timestamps.
C1_FirstHundredAdmitted ==
    resp.pipeline = "results" =>
        /\ RequestsInWindow(resp.ip, resp.now) <= 100 => resp.status # 429
        /\ RequestsInWindow(resp.ip, resp.now) = 101 => resp.status = 429

\* C2: the count used for the admission decision of a request is the number
\* of requests of its client recorded inside the window, itself included,
\* equal timestamps included.
C2_CountIsRequestsInWindow ==
    resp.pipeline = "results" => resp.count = RequestsInWindow(resp.ip, resp.now)

\* C3: every 429 of the rate limiter carries a Retry-After that is a
\* positive integer.
C3_RetryAfterPositive ==
    resp.status = 429 => resp.retryAfter >= 1

\* C4: once a client has been rejected, the first request it sends after the
\* window holding its admitted requests has fully elapsed is admitted with a
\* count of 1.
C4_FreshCountAfterWindow ==
    LET n == Len(served)
        earlier == 1..(n - 1)
        exhausted == \E i \in earlier : ~served[i].admitted
        elapsed == \A i \in earlier :
                      served[i].admitted => served[i].ts < resp.now - RATE_LIMIT_WINDOW_MS
        first == \A j \in earlier : \E i \in earlier :
                    served[i].admitted /\ served[j].ts < served[i].ts + RATE_LIMIT_WINDOW_MS
    IN  (resp.pipeline = "results" /\ exhausted /\ elapsed /\ first) =>
            (resp.status # 429 /\ resp.count = 1)

\* C5 as stated: a POST with a missing or mismatched bearer token is answered
\* 401 or 403 without the rate limiter recording it and without the
\* orchestrator running.
C5_AuthBeforeRateLimiter ==
    (resp.method = "POST" /\ resp.header # GoodHeader) =>
        (resp.status \in {401, 403} /\ ~resp.recorded /\ ~resp.orchestratorRan)

\* C5 amended: a POST with a missing or mismatched bearer token never reaches
\* the orchestrator; it is answered 401 (no token), 403 (wrong token) or, when
\* the rate limiter rejects it first, 429.  The rate limiter runs before the
\* token check: it records the request whenever its transaction succeeds.
C5_AuthBeforeOrchestrator ==
    (resp.method = "POST" /\ resp.header # GoodHeader) =>
        /\ ~resp.orchestratorRan
        /\ resp.status \in {401, 403, 429}
        /\ resp.next => (resp.status = 401 <=> resp.header \in {NoHeader, "Bearer"})
        /\ resp.pipeline = "results" <=> resp.recorded

\* a request with a wrong token has been answered 403 and is in the window
C5_Witness ==
    /\ resp.method = "POST" /\ resp.header = "Bearer wrong-token"
    /\ resp.status = 403 /\ resp.recorded /\ resp.now \in zset[resp.ip]

\* C6: when the pipeline throws or resolves with null, the request goes to
\* the next handler, is never answered 429, and the failure is logged.
C6_FailsOpen ==
    resp.pipeline \in {"null", "throws"} =>
        /\ resp.next /\ resp.status # 429
        /\ resp.logged /\ errorLog >= 1

\* the pipeline resolved with null for a valid request, which got its 200
C6_Witness ==
    resp.pipeline = "null" /\ resp.status = 200 /\ resp.orchestratorRan /\ errorLog = 1

----------------------------------------------------------------------------
(* Properties of the orchestrator, on the request vreq and its response vres *)

\* The request is one of dynamic mode and carries a form
IsDynamicRequest ==
    /\ vres # NoValidation
    /\ Get(vreq.body, "validationType") = Str("dynamic")
    /\ Get(vreq.body, "formData").t = "object"

\* The submitted value of a field is absent, null, empty or white space
SubmittedEmpty(field) ==
    LET v == Get(Get(vreq.body, "formData").o, field)
    IN  v.t \in {"undefined", "null"} \/ (v.t = "string" /\ Trim(v.s) = "")

\* The request marks the field required, in fieldRequirements or in a rule
MarkedRequired(field) ==
    LET requirement == Get(Get(vreq.body, "fieldRequirements").o, field)
    IN  \/ Get(requirement.o, "required") = Bool(TRUE)
        \/ Get(Get(requirement.o, "customRule").o, "required") = Bool(TRUE)
        \/ Get(Get(Get(vreq.body, "customRules").o, field).o, "required") = Bool(TRUE)

HasErrorAt(field) == \E i \in 1..Len(vres.errors) : vres.errors[i].path = <<field>>

\* C7: in dynamic mode, a field that fieldRequirements marks required and
\* whose value is empty, white space or absent makes the response a 422 whose
\* errors hold one with path [field].
C7_RequiredErrorKept ==
    IsDynamicRequest =>
        \A i \in 1..Len(Get(vreq.body, "fieldRequirements").o) :
            LET field == Get(vreq.body, "fieldRequirements").o[i].k
                requirement == Get(vreq.body, "fieldRequirements").o[i].v
            IN  (Get(requirement.o, "required") = Bool(TRUE) /\ SubmittedEmpty(field)) =>
                    (vres.status = 422 /\ HasErrorAt(field))

\* C8: in dynamic mode, a submitted field that nothing marks required and
\* whose value is the empty string contributes no error, whatever its type.
C8_OptionalEmptySkipped ==
    IsDynamicRequest =>
        \A i \in 1..Len(Get(vreq.body, "formData").o) :
            LET field == Get(vreq.body, "formData").o[i].k
                value == Get(vreq.body, "formData").o[i].v
            IN  (value = Str("") /\ ~MarkedRequired(field)) => ~HasErrorAt(field)

\* C9: a response is a 200, a 400 or a 422; a 422 carries at least one error
\* and every error the handler had collected; a 200 is given only when no
\* check reported an error.
C9_OutcomeMatchesErrors ==
    vres # NoValidation =>
        /\ vres.status \in {200, 400, 422}
        /\ vres.status = 422 =>
              /\ Len(vres.errors) >= 1
              /\ \A i \in 1..Len(vres.collected) :
                    \E j \in 1..Len(vres.errors) : vres.errors[j] = vres.collected[i]
        /\ vres.status = 200 => (vres.errors = <<>> /\ vres.collected = <<>>)

\* C10: a request without formData gets the 400 'formData is required';
\* schema mode (validationType 'schema', or schemaType alone) answers the 400
\* 'Invalid schema type...' unless schemaType is 'signup'; validationType
\* 'dynamic' validates; anything else gets the 400 'Invalid validationType...';
\* a 400 never carries field errors.
C10_ModeDispatch ==
    LET schemaType == Get(vreq.body, "schemaType")
        validationType == Get(vreq.body, "validationType")
        formData == Get(vreq.body, "formData")
        schemaMode == validationType = Str("schema")
                         \/ (Truthy(schemaType) /\ ~Truthy(validationType))
    IN  vres # NoValidation =>
            /\ vres.status = 400 => vres.errors = <<>>
            /\ IF ~Truthy(formData)
               THEN vres.status = 400 /\ vres.error = "formData is required"
               ELSE IF schemaMode /\ schemaType # Str("signup")
               THEN /\ vres.status = 400
                    /\ vres.error = "Invalid schema type. Use 'signup' or switch to dynamic validation."
               ELSE IF schemaMode \/ validationType = Str("dynamic")
               THEN vres.status \in {200, 422}
               ELSE /\ vres.status = 400
                    /\ vres.error = "Invalid validationType. Use 'schema' or 'dynamic'."


\* C12: in dynamic mode, a customRules entry with required: true whose field
\* is submitted empty or is absent (its dependsOn condition, if any, being
\* met) makes the response a 422 with an error on that field, which carries
\* the rule's message when the rule gives one.
C12_RuleRequiredEnforced ==
    IsDynamicRequest =>
        \A i \in 1..Len(Get(vreq.body, "customRules").o) :
            LET field == Get(vreq.body, "customRules").o[i].k
                rule == Get(vreq.body, "customRules").o[i].v.o
                conditionMet ==
                    ~IsDefined(Get(rule, "dependsOn"))
                    \/ Get(Get(vreq.body, "formData").o, ToStr(Get(rule, "dependsOn")))
                          = Get(rule, "dependsOnValue")
            IN  (Get(rule, "required") = Bool(TRUE) /\ SubmittedEmpty(field) /\ conditionMet) =>
                    /\ vres.status = 422
                    /\ HasErrorAt(field)
                    /\ IsString(Get(rule, "message")) =>
                          \E j \in 1..Len(vres.errors) :
                              vres.errors[j] = Err(field, Get(rule, "message").s)


\* The complexity requirements of a password: 10 to 20 characters, an
\* uppercase letter, a lowercase letter, a special character and a digit
MeetsComplexity(password) ==
    /\ Len(password) >= 10 /\ Len(password) <= 20
    /\ \E i \in 1..Len(password) : IsUpper(CharAt(password, i))
    /\ \E i \in 1..Len(password) : IsLower(CharAt(password, i))
    /\ \E i \in 1..Len(password) : ~IsAlnum(CharAt(password, i))
    /\ \E i \in 1..Len(password) : IsDigit(CharAt(password, i))

\* C13: in dynamic mode, every non-empty field detected as a password that
\* does not meet the complexity requirements makes the response a 422 with
\* an error on that field, whichever other fields the submission contains.
C13_PasswordComplexityApplied ==
    IsDynamicRequest =>
        \A i \in 1..Len(Get(vreq.body, "formData").o) :
            LET field == Get(vreq.body, "formData").o[i].k
                value == Get(vreq.body, "formData").o[i].v
            IN  (/\ detectFieldType(field) = "password"
                 /\ IsString(value) /\ Trim(value.s) # ""
                 /\ ~MeetsComplexity(Trim(value.s))) =>
                    (vres.status = 422 /\ HasErrorAt(field))

----------------------------------------------------------------------------
(* Properties of the domain-reputation cache *)

\* Two resolved lookups of one domain, the second started less than 24 hours
\* after the first
WithinTtl(i, j) ==
    /\ i < j
    /\ lookups[i].domain = lookups[j].domain
    /\ lookups[j].start - lookups[i].start < DayMs

----------------------------------------------------------------------------
(* Properties of the helper functions, on the call and its return value *)

HasReturned(fn) == call.fn = fn /\ ret.done

Merged == ret.value

\* The keys a rule can carry in the pools
RuleKeys == {"required", "type", "minLength", "maxLength", "pattern", "message"}

FieldsOf(map) == {map.o[i].k : i \in 1..Len(map.o)}

\* What the claim gives the merged rule of a field for a key: the value of
\* customRules when the key is there, otherwise that of the requirement (its
\* embedded customRule, then its required flag)
ExpectedRuleValue(fieldRequirements, customRules, field, key) ==
    LET rule == Get(customRules.o, field)
        requirement == Get(fieldRequirements.o, field)
        embedded == Get(requirement.o, "customRule")
    IN  IF HasKey(rule.o, key) THEN Get(rule.o, key)
        ELSE IF HasKey(embedded.o, key) THEN Get(embedded.o, key)
        ELSE IF key = "required" THEN Get(requirement.o, "required")
        ELSE JUndefined

\* C11: the merged rules hold exactly the fields of the two maps; for every
\* field and key the value is that of customRules when the key is present
\* there, otherwise that of the requirement; two absent maps merge into the
\* empty map.
C11_MergeRightBiased ==
    HasReturned("mergeValidationRules") =>
        LET fields == FieldsOf(call.fieldRequirements) \cup FieldsOf(call.customRules)
        IN  /\ {Merged[i].k : i \in 1..Len(Merged)} = fields
            /\ \A field \in fields, key \in RuleKeys :
                  Get(Get(Merged, field).o, key)
                     = ExpectedRuleValue(call.fieldRequirements, call.customRules, field, key)
            /\ (call.fieldRequirements = JUndefined /\ call.customRules = JUndefined) => Merged = <<>>

\* a key set on both sides takes the value of customRules, and a key of the
\* requirement that customRules does not set is kept
C11_Witness ==
    /\ HasReturned("mergeValidationRules")
    /\ Get(Get(Get(call.fieldRequirements.o, "email").o, "customRule").o, "minLength") = Num(3)
    /\ Get(Get(call.customRules.o, "email").o, "minLength") = Num(5)
    /\ Get(Get(Merged, "email").o, "minLength") = Num(5)
    /\ Get(Get(Merged, "email").o, "message") = Str("At least 3")

\* The password, the names and the message of a call of validatePassword
PasswordGiven == call.password.s
NamesGiven == {call.firstname.s, call.lastname.s}
PasswordResult == ret.value.msg

\* The message of the first complexity check that fails, in the fixed order
\* length, uppercase, lowercase, special character, digit ("" when none fails)
FirstComplexityFailure(password) ==
    IF Len(password) < 10 \/ Len(password) > 20 THEN MsgPasswordLength
    ELSE IF ~\E i \in 1..Len(password) : IsUpper(CharAt(password, i)) THEN MsgPasswordUpper
    ELSE IF ~\E i \in 1..Len(password) : IsLower(CharAt(password, i)) THEN MsgPasswordLower
    ELSE IF ~\E i \in 1..Len(password) : ~IsAlnum(CharAt(password, i)) THEN MsgPasswordSpecial
    ELSE IF ~\E i \in 1..Len(password) : IsDigit(CharAt(password, i)) THEN MsgPasswordNumber
    ELSE ""

\* The password contains the name, whatever the case of the letters
ContainsName(password, name) == Includes(ToLowerCase(password), ToLowerCase(name))

\* C15: a call of the password check returns one message at most, that of
\* the first failing check in the order length, uppercase, lowercase,
\* special character, digit, name exclusion; a password that is too short
\* and contains the name gets the length message only.
C15_FirstFailingCheck ==
    HasReturned("validatePassword") =>
        /\ ~ret.value.threw
        /\ IF FirstComplexityFailure(PasswordGiven) # ""
           THEN PasswordResult = FirstComplexityFailure(PasswordGiven)
           ELSE PasswordResult \in {MsgPasswordName, ""}

\* a password that is too short and contains the first name
C15_Witness ==
    /\ HasReturned("validatePassword")
    /\ PasswordGiven = "John1!" /\ call.firstname.s = "John"
    /\ ContainsName(PasswordGiven, call.firstname.s)
    /\ PasswordResult = MsgPasswordLength

\* C16: the name-exclusion message is returned only on account of a first or
\* last name of more than 3 characters that the password contains, and it is
\* returned whenever the password contains such a name (in any case of the
\* letters) and passes the complexity checks.
C16_NameExclusion ==
    HasReturned("validatePassword") =>
        /\ PasswordResult = MsgPasswordName =>
              \E name \in NamesGiven : Len(name) > 3 /\ ContainsName(PasswordGiven, name)
        /\ \A name \in NamesGiven :
              (Len(name) > 3 /\ ContainsName(PasswordGiven, name) /\ MeetsComplexity(PasswordGiven)) =>
                  PasswordResult = MsgPasswordName

\* the field name as the patterns and the substring rules see it
NormalizedName == Trim(ToLowerCase(call.fieldName))

ExactTypes(name) == {FIELD_TYPE_PATTERNS[i].type : i \in {j \in 1..Len(FIELD_TYPE_PATTERNS) : name \in FIELD_TYPE_PATTERNS[j].alt}}

FieldTypeTags == {FIELD_TYPE_PATTERNS[i].type : i \in 1..Len(FIELD_TYPE_PATTERNS)} \cup {"generic"}

\* C17: a field name that, lowercased and trimmed, is an alternative of a
\* type's exact pattern is detected as that type, whatever substring rule it
\* also satisfies; no name is an alternative of two types.
C17_ExactMatchWins ==
    HasReturned("detectFieldType") =>
        /\ Cardinality(ExactTypes(NormalizedName)) <= 1
        /\ \A type \in ExactTypes(NormalizedName) : ret.value = type

\* a name that is a last-name alternative and satisfies the full-name
\* substring rule is detected as a last name
C17_Witness ==
    /\ HasReturned("detectFieldType")
    /\ call.fieldName = "family_name"
    /\ ExactTypes(NormalizedName) = {"lastName"}
    /\ Includes(NormalizedName, "name")
    /\ ret.value = "lastName"

\* The substring rules in their priority order: a rule applies to a name that
\* contains one of `any`, all of `all` and none of `none`
FuzzyPriority == <<
    [type |-> "email",     any |-> {"email"},                   all |-> {}, none |-> {}],
    [type |-> "password",  any |-> {"password", "pass"},        all |-> {}, none |-> {}],
    [type |-> "phone",     any |-> {"phone", "mobile"},         all |-> {}, none |-> {}],
    [type |-> "username",  any |-> {"username", "user_name"},   all |-> {}, none |-> {}],
    [type |-> "firstName", any |-> {"name"},                    all |-> {"first"}, none |-> {}],
    [type |-> "lastName",  any |-> {"name"},                    all |-> {"last"},  none |-> {}],
    [type |-> "fullName",  any |-> {"name"},                    all |-> {}, none |-> {"user"}],
    [type |-> "age",       any |-> {"age"},                     all |-> {}, none |-> {}],
    [type |-> "url",       any |-> {"url", "website"},          all |-> {}, none |-> {}],
    [type |-> "zipCode",   any |-> {"zip", "postal"},           all |-> {}, none |-> {}],
    [type |-> "country",   any |-> {"country"},                 all |-> {}, none |-> {}],
    [type |-> "state",     any |-> {"state", "province"},       all |-> {}, none |-> {}],
    [type |-> "city",      any |-> {"city", "town"},            all |-> {}, none |-> {}],
    [type |-> "address",   any |-> {"address", "street"},       all |-> {}, none |-> {}],
    [type |-> "company",   any |-> {"company", "organization"}, all |-> {}, none |-> {}],
    [type |-> "title",     any |-> {"title", "position"},       all |-> {}, none |-> {}],
    [type |-> "date",      any |-> {"date", "birth"},           all |-> {}, none |-> {}] >>

RuleApplies(rule, name) ==
    /\ \E w \in rule.any : Includes(name, w)
    /\ \A w \in rule.all : Includes(name, w)
    /\ \A w \in rule.none : ~Includes(name, w)

ApplyingRules(name) == {i \in 1..Len(FuzzyPriority) : RuleApplies(FuzzyPriority[i], name)}

FirstApplyingType(rules) ==
    IF rules = {} THEN "generic"
    ELSE FuzzyPriority[CHOOSE i \in rules : \A j \in rules : i <= j].type

\* C18: detection returns a type for every field name, the empty and the
\* blank ones included; a name that is no alternative of an exact pattern gets
\* the type of the first substring rule that applies, in the priority order,
\* and generic when none applies.
C18_TotalFuzzyPriority ==
    HasReturned("detectFieldType") =>
        /\ ret.value \in FieldTypeTags
        /\ ExactTypes(NormalizedName) = {} =>
              ret.value = FirstApplyingType(ApplyingRules(NormalizedName))

\* a user's nickname contains "name" and "user": no name rule takes it
C18_Witness ==
    /\ HasReturned("detectFieldType")
    /\ call.fieldName = "user_nickname"
    /\ ExactTypes(NormalizedName) = {}
    /\ ApplyingRules(NormalizedName) = {}
    /\ ret.value = "generic"

HasRevalidated == vagain # NoRevalidation

\* after holds the entries of before, a string value without the white space
\* around it and any other value as it was
ValuesTrimmed(before, after) ==
    /\ Len(after) = Len(before)
    /\ \A i \in 1..Len(before) :
          /\ after[i].k = before[i].k
          /\ after[i].v = IF before[i].v.t = "string" THEN Str(Trim(before[i].v.s)) ELSE before[i].v

\* after is the request body before, changed in the string values of its
\* formData only, and these trimmed
OnlyTrimmed(before, after) ==
    /\ Len(after) = Len(before)
    /\ \A i \in 1..Len(before) :
          /\ after[i].k = before[i].k
          /\ IF before[i].k = "formData" /\ before[i].v.t = "object"
             THEN after[i].v.t = "object" /\ ValuesTrimmed(before[i].v.o, after[i].v.o)
             ELSE after[i].v = before[i].v

FormGiven == TrimFormData(Get(vreq.body, "formData").o)
RequirementsGiven == Get(vreq.body, "fieldRequirements")
RulesGiven == Get(vreq.body, "customRules")

RequiredMissing == validateRequiredFields(FormGiven, RequirementsGiven)

\* What each step after the required-field pass reports for the request
StructuralErrors == validateDynamicForm(FormGiven, RequirementsGiven, RulesGiven).errors
CustomErrors ==
    IF Truthy(RulesGiven) /\ Len(RulesGiven.o) > 0
    THEN validateWithCustomRules(FormGiven, mergeValidationRules(RequirementsGiven, RulesGiven))
    ELSE <<>>
CrossFieldErrors ==
    DynamicPasswordChecks(FormGiven).errors \o DynamicEmailChecks(FormGiven, vreq.verdict)

\* C20: in dynamic mode with a required field missing, the response is the
\* 422 whose errors are those of the required-field pass, then those of the
\* custom rules (when a non-empty map was sent), then those of the password
\* and e-mail checks, and none of the structural validation; with no
\* required field missing the errors of the structural validation come
\* first and those of the custom rules follow them all the same.
C20_StepsAfterRequiredMissing ==
    IsDynamicRequest =>
        /\ RequiredMissing # <<>> =>
              /\ vres.status = 422
              /\ vres.errors = RequiredMissing \o CustomErrors \o CrossFieldErrors
        /\ (RequiredMissing = <<>> /\ vres.status = 422) =>
              vres.errors = StructuralErrors \o CustomErrors \o CrossFieldErrors

\* C21: the error list of a response never holds two entries with the same
\* path and the same message: a string constraint of a custom rule that the
\* value violates is reported once, though both the dynamic schema and the
\* custom-rule evaluator know it.
C21_ConstraintReportedOnce ==
    vres # NoValidation =>
        \A i, j \in 1..Len(vres.errors) : vres.errors[i] = vres.errors[j] => i = j

\* The rule of the call, its value as text, and the value the rule depends on
RuleKey(k) == Get(call.rule, k)
ValueText == IF call.fieldValue.t \in {"null", "undefined"} THEN "" ELSE ToStr(call.fieldValue)
DependentValue == Get(call.allFormData, ToStr(RuleKey("dependsOn")))

\* The value is missing, falsy or blank, and the rule does not require it
SkipGatePasses ==
    /\ ~Truthy(RuleKey("required"))
    /\ \/ ~Truthy(call.fieldValue)
       \/ (IsString(call.fieldValue) /\ Trim(call.fieldValue.s) = "")

Failing(fails, text) == IF fails THEN <<text>> ELSE <<>>

\* The fallback messages of the checks the value fails, in the order of the
\* checks: minLength, maxLength, pattern, contains, startsWith, endsWith,
\* min/max, minItems/maxItems, custom predicate
FailedChecks(d, s, number) ==
    Failing(IsDefined(RuleKey("minLength")) /\ Len(s) < RuleKey("minLength").n,
            d \o " must be at least " \o ToString(RuleKey("minLength").n) \o " characters")
    \o Failing(IsDefined(RuleKey("maxLength")) /\ Len(s) > RuleKey("maxLength").n,
               d \o " must not exceed " \o ToString(RuleKey("maxLength").n) \o " characters")
    \o Failing(Truthy(RuleKey("pattern")) /\ RegexCompiles(RuleKey("pattern").s)
                  /\ ~RegexTest(RuleKey("pattern").s, s),
               d \o " format is invalid")
    \o Failing(Truthy(RuleKey("contains")) /\ ~Includes(ToLowerCase(s), ToLowerCase(RuleKey("contains").s)),
               d \o " must contain \"" \o RuleKey("contains").s \o "\"")
    \o Failing(Truthy(RuleKey("startsWith")) /\ ~StartsWith(ToLowerCase(s), ToLowerCase(RuleKey("startsWith").s)),
               d \o " must start with \"" \o RuleKey("startsWith").s \o "\"")
    \o Failing(Truthy(RuleKey("endsWith")) /\ ~EndsWith(ToLowerCase(s), ToLowerCase(RuleKey("endsWith").s)),
               d \o " must end with \"" \o RuleKey("endsWith").s \o "\"")
    \o Failing((IsDefined(RuleKey("min")) \/ IsDefined(RuleKey("max"))) /\ number.nan,
               d \o " must be a valid number")
    \o Failing(IsDefined(RuleKey("min")) /\ ~number.nan /\ number.n < RuleKey("min").n,
               d \o " must be at least " \o ToString(RuleKey("min").n))
    \o Failing(IsDefined(RuleKey("max")) /\ ~number.nan /\ number.n > RuleKey("max").n,
               d \o " must not exceed " \o ToString(RuleKey("max").n))
    \o Failing(IsDefined(RuleKey("minItems")) /\ ItemCount(call.fieldValue) < RuleKey("minItems").n,
               d \o " must have at least " \o ToString(RuleKey("minItems").n) \o " items")
    \o Failing(IsDefined(RuleKey("maxItems")) /\ ItemCount(call.fieldValue) > RuleKey("maxItems").n,
               d \o " must not have more than " \o ToString(RuleKey("maxItems").n) \o " items")
    \o Failing(Truthy(RuleKey("customValidator"))
                  /\ ~RunCustomValidator(RuleKey("customValidator").s, call.fieldValue),
               d \o " validation failed")

\* rule.message when the rule has one, otherwise the message of the first
\* check that fails; "" when none fails
FirstFailure(failed) ==
    IF failed = <<>> THEN ""
    ELSE IF Truthy(RuleKey("message")) THEN ToStr(RuleKey("message"))
    ELSE Head(failed)

ExpectedFailure == FirstFailure(FailedChecks(FieldDisplayName(call.fieldName), ValueText, ParseNumber(ValueText)))

\* C22: a call returns one message at most: nothing when the rule does not
\* require the value and the value is empty or missing, whatever other keys
\* the rule has; nothing when the rule depends on a given value of another
\* field and that field holds another one; otherwise the message of the first
\* check the value fails, in the order minLength, maxLength, pattern,
\* contains, startsWith, endsWith, min/max, minItems/maxItems, custom
\* predicate.  An empty value that the rule requires is checked like any
\* other value.
C22_FirstFailingCheckInOrder ==
    HasReturned("validateAdvancedRule") =>
        /\ SkipGatePasses => ret.value = ""
        /\ (/\ ~SkipGatePasses
            /\ Truthy(RuleKey("dependsOn")) /\ IsDefined(RuleKey("dependsOnValue"))
            /\ DependentValue # RuleKey("dependsOnValue")) => ret.value = ""
        /\ (/\ ~SkipGatePasses
            /\ ~Truthy(RuleKey("dependsOn")) \/ DependentValue = RuleKey("dependsOnValue"))
              => ret.value = ExpectedFailure

\* a required empty value fails minLength before the pattern
C22_Witness ==
    /\ HasReturned("validateAdvancedRule")
    /\ call.fieldValue = Str("")
    /\ call.rule = <<Entry("required", Bool(TRUE)), Entry("minLength", Num(3)), Entry("pattern", Str("^[0-9]+$"))>>
    /\ Len(FailedChecks("Code", "", ParseNumber(""))) = 2
    /\ ret.value = "Code must be at least 3 characters"

\* C23: when the rule names a field it depends on and the submitted value of
\* that field is not the rule's dependsOnValue (an absent dependsOnValue
\* being the value undefined), the call returns nothing, whatever check the
\* value would fail; when the two are equal the checks run.
C23_ConditionalGate ==
    (HasReturned("validateAdvancedRule") /\ ~SkipGatePasses /\ Truthy(RuleKey("dependsOn"))) =>
        IF DependentValue # RuleKey("dependsOnValue") THEN ret.value = ""
        ELSE ret.value = ExpectedFailure

\* The request is one of schema mode for the signup schema and carries a form
IsSignupRequest ==
    /\ vres # NoValidation
    /\ Get(vreq.body, "schemaType") = Str("signup")
    /\ Get(vreq.body, "validationType") \in {JUndefined, Str("schema")}
    /\ Get(vreq.body, "formData").t = "object"

\* What the parse and each of the three signup checks report for the request
ParseErrors == SignupIssues(FormGiven)
SignupPasswordErrors ==
    PasswordErrors("password", validatePassword(Get(FormGiven, "password"), Get(FormGiven, "firstname")))
SignupUsernameErrors ==
    IF isSuspiciousEmailUsername(EmailParts(Get(FormGiven, "email").s).username)
    THEN <<Err("email", MsgSuspicious)>> ELSE <<>>
SignupDomainErrors ==
    IF EmailParts(Get(FormGiven, "email").s).domain # "" /\ vreq.verdict # ""
    THEN <<Err("email", vreq.verdict)>> ELSE <<>>

\* C24: in schema mode, a submission the signup schema rejects is answered
\* with the field errors of the parse and nothing else (no verdict of the
\* domain check is in the response, whatever the domain check would say); a
\* submission it accepts goes through the password check, the
\* suspicious-username check and the domain check, and the response holds
\* the error of each one that fails, whatever the others found.
C24_SchemaModeSequence ==
    IsSignupRequest =>
        /\ ParseErrors # <<>> => (vres.status = 422 /\ vres.errors = ParseErrors)
        /\ ParseErrors = <<>> =>
              /\ vres.errors = SignupPasswordErrors \o SignupUsernameErrors \o SignupDomainErrors
              /\ vres.status = IF vres.errors = <<>> THEN 200 ELSE 422

\* a rejected submission whose domain is flagged, and an accepted one that
\* fails the password check and the domain check
C24_WitnessParseFails ==
    /\ IsSignupRequest
    /\ ParseErrors # <<>>
    /\ vreq.verdict # ""
    /\ EmailParts(Get(FormGiven, "email").s).domain # ""
    /\ vres.errors = ParseErrors

C24_Witness ==
    /\ IsSignupRequest
    /\ ParseErrors = <<>>
    /\ SignupPasswordErrors # <<>>
    /\ SignupUsernameErrors # <<>>
    /\ SignupDomainErrors # <<>>
    /\ Len(vres.errors) = 3
    /\ vres.status = 422

\* The keys of the form whose detected type is type, and those whose name
\* contains word
KeysTyped(type) == {i \in 1..Len(FormGiven) : detectFieldType(FormGiven[i].k) = type}
KeysNamed(word) == {i \in 1..Len(FormGiven) : Includes(ToLowerCase(FormGiven[i].k), word)}

FirstKey(indices) == FormGiven[CHOOSE i \in indices : \A j \in indices : i <= j].k

\* The sibling by type tag, and only without one the sibling by name
SiblingByTagFirst(type, word) ==
    IF KeysTyped(type) # {} THEN FirstKey(KeysTyped(type))
    ELSE IF KeysNamed(word) # {} THEN FirstKey(KeysNamed(word))
    ELSE Undefined

\* The errors of the password check run against that sibling
PasswordErrorsAgainst(firstNameField, lastNameField) ==
    IF firstNameField = Undefined \/ lastNameField = Undefined THEN <<>>
    ELSE Flatten([i \in 1..Len(FormGiven) |->
                    IF detectFieldType(FormGiven[i].k) = "password" /\ Truthy(FormGiven[i].v)
                    THEN PasswordErrors(FormGiven[i].k,
                                        validatePassword(FormGiven[i].v, Get(FormGiven, firstNameField)))
                    ELSE <<>>])

\* C25: in dynamic mode the password check is run against the field tagged
\* firstName when the submission has one, against a field with "first" in
\* its name only when none is tagged (likewise lastName and "last"), and
\* only when both siblings exist: the errors of the response are those of
\* the other steps and of that password check.
C25_SiblingByTagFirst ==
    (IsDynamicRequest /\ RequiredMissing = <<>>) =>
        vres.errors = StructuralErrors \o CustomErrors
                      \o PasswordErrorsAgainst(SiblingByTagFirst("firstName", "first"),
                                               SiblingByTagFirst("lastName", "last"))
                      \o DynamicEmailChecks(FormGiven, vreq.verdict)

\* The value the promise of the call in progress has: that of the first
\* resolve(); later ones change nothing
HasResolved == settled # <<>>
ResolvedWith == Head(settled)

\* C26: a call whose request timed out resolves with the message of the
\* timeout, in whatever order the timeout callback, the error callback that
\* the destroyed request triggers and their cache writes complete.
C26_TimeoutMessage ==
    ("timeout" \in fired /\ HasResolved) => ResolvedWith = "Email domain timed out"

\* The j-th call is a get that follows the set of the i-th call on the same
\* key before the TTL of that set has ended, no other set of the key between
GetsWhatWasSet(i, j) ==
    /\ i < j
    /\ cacheOps[i].op = "set" /\ cacheOps[j].op = "get"
    /\ cacheOps[i].key = cacheOps[j].key
    /\ cacheOps[j].at - cacheOps[i].at < cacheOps[i].ttlSeconds * 1000
    /\ \A k \in (i + 1)..(j - 1) : ~(cacheOps[k].op = "set" /\ cacheOps[k].key = cacheOps[i].key)

\* C27 as stated: a value written with set is returned by every get of the
\* key before the TTL ends, whatever the external store does in between.
C27_GetReturnsWhatWasSet ==
    \A i, j \in 1..Len(cacheOps) : GetsWhatWasSet(i, j) => cacheOps[j].value = cacheOps[i].value

\* C27 amended: set and get always answer (a get with a value or with null);
\* a value written with set is returned by every get of the key before the
\* TTL ends that uses the store the set used: Redis when the client is
\* connected and the command succeeds, the fallback cache otherwise.  A get
\* that uses the other store answers with what that store holds.
C27_GetReturnsWhatItsStoreHolds ==
    \A i, j \in 1..Len(cacheOps) :
        /\ cacheOps[j].op = "get" => cacheOps[j].value \in CacheValues \cup {Null}
        /\ (GetsWhatWasSet(i, j) /\ cacheOps[j].store = cacheOps[i].store) =>
              cacheOps[j].value = cacheOps[i].value

\* a value written to the fallback cache while Redis was unreachable is read
\* from it one millisecond before its TTL ends, Redis still unreachable
C27_Witness ==
    /\ Len(cacheOps) >= 2
    /\ cacheOps[1].op = "set" /\ cacheOps[1].store = "fallback"
    /\ cacheOps[2].op = "get" /\ cacheOps[2].store = "fallback"
    /\ cacheOps[2].key = cacheOps[1].key
    /\ cacheOps[2].at - cacheOps[1].at = DayMs - 1
    /\ cacheOps[2].value = cacheOps[1].value


----------------------------------------------------------------------------
(* The entries of a client's sorted set *)

\* The timestamps of the requests of ip that the limiter admitted
AdmittedMarkers(ip) ==
    {served[i].ts : i \in {j \in 1..Len(served) : served[j].ip = ip /\ served[j].admitted}}

\* C28: a client's sorted set holds markers of admitted requests only: a
\* request rejected with 429 leaves no entry behind that later requests of
\* the client would count.
C28_OnlyAdmittedRecorded ==
    \A ip \in IPs : zset[ip] \subseteq AdmittedMarkers(ip)

\* The entries a request reading the clock at now keeps: those that are not
\* older than the window, its own marker added
KeptByPurge(set, now) ==
    {m \in set : m >= now - RATE_LIMIT_WINDOW_MS} \cup {now}

\* C29: the transaction of a request purges exactly the entries whose
\* timestamp is strictly less than now - 60000: an entry exactly 60000 ms
\* old stays and is counted, and no younger entry is removed.
C29_PurgesStrictlyOlder ==
    [][Len(served') = Len(served) + 1 =>
          LET done == served'[Len(served')]
          IN  zset'[done.ip] = KeptByPurge(LiveSet(done.ip), done.ts)]_vars


----------------------------------------------------------------------------
(* The verdicts of the oracle in the cache *)

\* What a store answers for the domain's key at the time now
StoreGet(store, redis, fallback, domain, now) ==
    IF store = "redis" THEN RedisGet(redis, CacheKey(domain), now)
    ELSE FallbackGet(fallback, CacheKey(domain), now)

\* The value under which a resolved result is cached
VerdictOf(result) == IF result = "" THEN "false" ELSE "true"

\* The call that has just resolved did so on a verdict of the oracle, and
\* the store it wrote to holds that verdict for 24 hours from now on
VerdictWritten(done, redis, fallback, now) ==
    /\ done.wrote \in {"redis", "fallback"}
    /\ StoreGet(done.wrote, redis, fallback, done.domain, now) = VerdictOf(done.result)
    /\ StoreGet(done.wrote, redis, fallback, done.domain, now + DayMs - 1) = VerdictOf(done.result)
    /\ StoreGet(done.wrote, redis, fallback, done.domain, now + DayMs) = Null

\* Every call that resolves has either written its verdict or, answered
\* from the cache, written nothing
WritesOnVerdictsOnly ==
    [][Len(lookups') = Len(lookups) + 1 =>
          LET done == lookups'[Len(lookups')]
          IN  IF done.oracle
              THEN VerdictWritten(done, redisKeys', fallbackCache', clock')
              ELSE /\ done.wrote = "none"
                   /\ UNCHANGED <<redisKeys, fallbackCache>>]_vars

\* The lookup i ended on a timeout or a transport error
TimedOutOrFailed(i) ==
    /\ lookups[i].oracle
    /\ lookups[i].result \in {OracleMessage("timeout"), OracleMessage("error")}

\* The lookup j is answered from the cache as flagged
AnsweredAsFlagged(j) ==
    /\ ~lookups[j].oracle
    /\ lookups[j].result = "Domain previously flagged"

NoVerdictBetween(i, j) ==
    \A k \in (i + 1)..(j - 1) :
        ~(lookups[k].domain = lookups[i].domain /\ lookups[k].wrote = lookups[i].wrote)

====
